---- MODULE Spec2Model ----
(***************************************************************************)
(* LoRaDB-UI: the widget data pipeline (widgetDataProcessor.ts) and the    *)
(* dashboard layout store (useDashboardLayout.ts).                         *)
(*                                                                         *)
(* JavaScript values are records tagged by t (typeof).  Numbers carry a    *)
(* kind k: "fin" (finite), "nan", "inf" (+Infinity); a finite number is    *)
(* held in hundredths (v = 1000 is 10.00), so that value + 273.15 and      *)
(* value * 9 / 5 + 32 stay integers.                                       *)
(***************************************************************************)
EXTENDS Integers, Sequences, FiniteSets, TLC

VARIABLES
    args,            \* arguments of the pure function under check
    ret,             \* what the call returned (NotCalled before the call)
    localLayout,     \* useState<DashboardLayout>
    dashboardData,   \* useQuery data: Undefined until the first fetch succeeds
    remote,          \* the dashboard document held by the remote store
    fetching,        \* a getDefaultDashboard request is in flight
    timer,           \* the debounce timeout is armed
    inflight,        \* outcomes of the updateDashboard calls awaiting their response
    nextId,          \* number of widget ids generated so far, plus one
    writesSinceEdit, \* updateDashboard calls issued since the last user edit
    localStorage,    \* the item 'loradb-dashboard-layout', parsed; Null when absent
    migrationAttempted, \* useState(false)
    migrating,       \* outcomes of the migrateDashboard calls awaiting their response
    migrateCalls     \* migrateDashboard calls issued so far

vars == <<args, ret, localLayout, dashboardData, remote, fetching, timer,
          inflight, nextId, writesSinceEdit, localStorage, migrationAttempted,
          migrating, migrateCalls>>

migrationVars == <<localStorage, migrationAttempted, migrating, migrateCalls>>

storeVars == <<localLayout, dashboardData, remote, fetching, timer, inflight,
               nextId, writesSinceEdit, migrationVars>>

---------------------------------------------------------------------------
(* JavaScript values *)

Undefined == [t |-> "undefined"]

Null == [t |-> "null"]

NotCalled == [t |-> "notcalled"]

Num(n) == [t |-> "number", k |-> "fin", v |-> n]

NaN == [t |-> "number", k |-> "nan", v |-> 0]

PosInf == [t |-> "number", k |-> "inf", v |-> 0]

Str(s) == [t |-> "string", s |-> s]

Bool(b) == [t |-> "boolean", b |-> b]

\* a JavaScript array; an optional array is Undefined or Arr(items)
Arr(items) == [t |-> "array", items |-> items]

\* a < b on JavaScript numbers: false whenever either side is NaN
JsLt(a, b) ==
    /\ a.k # "nan" /\ b.k # "nan"
    /\ \/ a.k = "fin" /\ b.k = "fin" /\ a.v < b.v
       \/ a.k = "fin" /\ b.k = "inf"

\* a === b on JavaScript numbers
JsEq(a, b) == a.k # "nan" /\ b.k # "nan" /\ a.k = b.k /\ a.v = b.v

JsLe(a, b) == JsLt(a, b) \/ JsEq(a, b)

JsGt(a, b) == JsLt(b, a)

JsGe(a, b) == JsLe(b, a)

---------------------------------------------------------------------------
(* Status evaluator: evaluateStatus / checkCondition *)

DefaultStatus == [level |-> "info", label |-> "Unknown"]

checkConditionNoBetweenMax(value, condition) ==
    CASE condition.operator = "lt" ->
            condition.value # Undefined /\ JsLt(value, condition.value)
      [] condition.operator = "lte" ->
            condition.value # Undefined /\ JsLe(value, condition.value)
      [] condition.operator = "gt" ->
            condition.value # Undefined /\ JsGt(value, condition.value)
      [] condition.operator = "gte" ->
            condition.value # Undefined /\ JsGe(value, condition.value)
      [] condition.operator = "eq" ->
            condition.value # Undefined /\ JsEq(value, condition.value)
      [] condition.operator = "between" ->
            /\ condition.min # Undefined
            /\ condition.max # Undefined
            /\ JsGe(value, condition.min)
            /\ JsLt(value, condition.max)
      [] OTHER -> FALSE

checkCondition(value, condition) ==
    CASE condition.operator = "lt" ->
            condition.value # Undefined /\ JsLt(value, condition.value)
      [] condition.operator = "lte" ->
            condition.value # Undefined /\ JsLe(value, condition.value)
      [] condition.operator = "gt" ->
            condition.value # Undefined /\ JsGt(value, condition.value)
      [] condition.operator = "gte" ->
            condition.value # Undefined /\ JsGe(value, condition.value)
      [] condition.operator = "eq" ->
            condition.value # Undefined /\ JsEq(value, condition.value)
      [] condition.operator = "between" ->
            /\ condition.min # Undefined
            /\ condition.max # Undefined
            /\ JsGe(value, condition.min)
            /\ JsLe(value, condition.max)
      [] OTHER -> FALSE

RECURSIVE firstMatchFrom(_, _, _)
\* the for..of loop of evaluateStatus, from index i on
firstMatchFrom(value, conditions, i) ==
    IF i > Len(conditions) THEN DefaultStatus
    ELSE IF checkCondition(value, conditions[i])
         THEN [level |-> conditions[i].status, label |-> conditions[i].label]
         ELSE firstMatchFrom(value, conditions, i + 1)

RECURSIVE lastMatchFrom(_, _, _)
lastMatchFrom(value, conditions, i) ==
    IF i < 1 THEN DefaultStatus
    ELSE IF checkCondition(value, conditions[i])
         THEN [level |-> conditions[i].status, label |-> conditions[i].label]
         ELSE lastMatchFrom(value, conditions, i - 1)

evaluateStatusLastMatch(value, conditions) ==
    IF conditions = Undefined \/ Len(conditions.items) = 0 THEN DefaultStatus
    ELSE lastMatchFrom(value, conditions.items, Len(conditions.items))

evaluateStatusNoDefault(value, conditions) ==
    IF conditions = Undefined \/ Len(conditions.items) = 0 THEN DefaultStatus
    ELSE IF \E i \in 1..Len(conditions.items) :
                checkCondition(value, conditions.items[i])
         THEN firstMatchFrom(value, conditions.items, 1)
         ELSE [level |-> conditions.items[Len(conditions.items)].status,
               label |-> conditions.items[Len(conditions.items)].label]

evaluateStatus(value, conditions) ==
    IF conditions = Undefined \/ Len(conditions.items) = 0 THEN DefaultStatus
    ELSE firstMatchFrom(value, conditions.items, 1)

---------------------------------------------------------------------------
(* Frame-to-measurement extractor: extractMeasurementValue *)

\* a JavaScript object: fields is a function from its own keys to values
Obj(fields) == [t |-> "object", fields |-> fields]

\* obj[key]: undefined when obj has no such key or is no object
Get(obj, key) ==
    IF obj.t = "object" /\ key \in DOMAIN obj.fields THEN obj.fields[key]
    ELSE Undefined

\* JavaScript truthiness
Truthy(x) ==
    x \notin {Undefined, Null, Str(""), Bool(FALSE), Num(0), NaN}

RECURSIVE getNestedValue(_, _)
\* queryParser.getNestedValue: follows the path (the dot-separated segments, in
\* order) key by key; undefined as soon as a segment is missing
getNestedValue(obj, path) ==
    IF path = <<>> THEN obj
    ELSE IF obj.t = "object" /\ Head(path) \in DOMAIN obj.fields
         THEN getNestedValue(obj.fields[Head(path)], Tail(path))
         ELSE Undefined

\* Number(s) for the strings of the model: "" is 0, a numeric literal is its
\* value, "Infinity" is Infinity, anything else is NaN
StringToNumber(s) ==
    CASE s = "" -> Num(0)
      [] s = "12.5" -> Num(1250)
      [] s = "Infinity" -> PosInf
      [] OTHER -> NaN

\* Number(value): ToNumber of ECMAScript
ToNumber(value) ==
    CASE value.t = "number" -> value
      [] value.t = "undefined" -> NaN
      [] value.t = "null" -> Num(0)
      [] value.t = "boolean" -> IF value.b THEN Num(100) ELSE Num(0)
      [] value.t = "string" -> StringToNumber(value.s)
      [] value.t = "array" ->
            \* ToPrimitive joins the items: [] is "", [x] is String(x)
            IF Len(value.items) = 0 THEN Num(0)
            ELSE IF Len(value.items) = 1
                 THEN CASE value.items[1].t = "number" -> value.items[1]
                        [] value.items[1].t = "string" ->
                              StringToNumber(value.items[1].s)
                        [] value.items[1].t \in {"undefined", "null"} -> Num(0)
                        [] OTHER -> NaN
                 ELSE NaN
      [] OTHER -> NaN   \* a plain object is "[object Object]"

isNaN(n) == n.k = "nan"

extractMeasurementValue(frame, path) ==
    LET value == getNestedValue(frame, path) IN
    IF value = Null \/ value = Undefined THEN Null
    ELSE LET numValue == ToNumber(value) IN
         IF isNaN(numValue) THEN Null ELSE numValue

---------------------------------------------------------------------------
(* Unit/value converter *)

\* conversion settings are Undefined or [enabled, convertTo]
conversionOff(conversion) ==
    conversion = Undefined \/ ~conversion.enabled \/ conversion.convertTo = Undefined

\* value * 9 / 5 + 32 and value + 273.15, on hundredths
convertTemperature(value, conversion) ==
    IF conversionOff(conversion) THEN value
    ELSE CASE conversion.convertTo = Str("fahrenheit") ->
                 IF value.k = "fin" THEN Num((value.v * 9) \div 5 + 3200) ELSE value
           [] conversion.convertTo = Str("kelvin") ->
                 IF value.k = "fin" THEN Num(value.v + 27315) ELSE value
           [] OTHER -> value

\* "degC" and "degF" stand for the unit labels '\u00b0C' and '\u00b0F'
getConvertedUnit(originalUnit, conversion) ==
    IF conversionOff(conversion) THEN originalUnit
    ELSE IF originalUnit = "degC"
         THEN CASE conversion.convertTo = Str("fahrenheit") -> "degF"
                [] conversion.convertTo = Str("kelvin") -> "K"
                [] OTHER -> originalUnit
         ELSE originalUnit

getConvertedYAxisRange(originalMin, originalMax, conversion) ==
    IF conversionOff(conversion) THEN [min |-> originalMin, max |-> originalMax]
    ELSE [min |-> IF originalMin # Undefined
                  THEN convertTemperature(originalMin, conversion) ELSE Undefined,
          max |-> IF originalMax # Undefined
                  THEN convertTemperature(originalMax, conversion) ELSE Undefined]

---------------------------------------------------------------------------
(* Widget data assembler: processWidgetData *)

\* new Date(timestamp).getTime(), in hours since 2024-01-01T00:00:00Z, for the
\* timestamps of the model; a string that is no date gives NaN
DateGetTime(timestamp) ==
    CASE timestamp = Str("2024-01-01T01:00:00Z") -> Num(1)
      [] timestamp = Str("2024-01-01T04:00:00+02:00") -> Num(2)
      [] timestamp = Str("2024-01-01T03:00:00Z") -> Num(3)
      [] OTHER -> NaN

\* the sort comparator (a, b) => getTime(a) - getTime(b); sort reads NaN as +0
compareTimestamps(a, b) ==
    LET ta == DateGetTime(a.timestamp)
        tb == DateGetTime(b.timestamp)
    IN IF ta.k = "fin" /\ tb.k = "fin" THEN ta.v - tb.v ELSE 0

RECURSIVE insertSorted(_, _)
\* p goes after every point that does not compare greater: the sort is stable
insertSorted(sorted, p) ==
    IF sorted = <<>> THEN <<p>>
    ELSE IF compareTimestamps(sorted[Len(sorted)], p) <= 0
         THEN Append(sorted, p)
         ELSE Append(insertSorted(SubSeq(sorted, 1, Len(sorted) - 1), p),
                     sorted[Len(sorted)])

RECURSIVE sortFrom(_, _, _)
sortFrom(points, i, acc) ==
    IF i > Len(points) THEN acc
    ELSE sortFrom(points, i + 1, insertSorted(acc, points[i]))

sortUnsorted(points) == points

\* timeSeries.sort(comparator): Array.prototype.sort is stable
sortByTimestamp(points) == sortFrom(points, 1, <<>>)

uplinkOfWrappedOnly(f) == Get(f, "Uplink")

\* f.Uplink || (f.dev_eui ? f : undefined)
uplinkOf(f) ==
    IF Truthy(Get(f, "Uplink")) THEN Get(f, "Uplink")
    ELSE IF Truthy(Get(f, "dev_eui")) THEN f ELSE Undefined

RECURSIVE uplinkFramesFrom(_, _)
\* frames.map(...).filter((f) => f !== undefined)
uplinkFramesFrom(frames, i) ==
    IF i > Len(frames) THEN <<>>
    ELSE LET u == uplinkOf(frames[i])
             rest == uplinkFramesFrom(frames, i + 1)
         IN IF u # Undefined THEN <<u>> \o rest ELSE rest

RECURSIVE timeSeriesFrom(_, _, _, _)
\* the extraction loop over uplinkFrames
timeSeriesFrom(uplinkFrames, i, path, conversion) ==
    IF i > Len(uplinkFrames) THEN <<>>
    ELSE LET frame == uplinkFrames[i]
             value == extractMeasurementValue(frame, path)
             rest == timeSeriesFrom(uplinkFrames, i + 1, path, conversion)
         IN IF value # Null /\ Truthy(Get(frame, "received_at"))
            THEN << [timestamp |-> Get(frame, "received_at"),
                     value |-> convertTemperature(value, conversion)] >> \o rest
            ELSE rest

timeSeriesAllOrNothing(uplinkFrames, path, conversion) ==
    LET points == timeSeriesFrom(uplinkFrames, 1, path, conversion)
    IN IF Len(points) = Len(uplinkFrames) THEN points ELSE <<>>

timeSeriesOf(uplinkFrames, path, conversion) ==
    timeSeriesFrom(uplinkFrames, 1, path, conversion)

ErrNoUplink == [text |-> "No uplink frames found", path |-> <<>>]

ErrNoData(path) == [text |-> "No data found at path: ", path |-> path]

\* processWidgetData past its first guard
assemble(frames, widget, measurement) ==
    LET uplinkFrames == uplinkFramesFrom(frames, 1) IN
    IF Len(uplinkFrames) = 0
    THEN [widgetId |-> widget.id, error |-> ErrNoUplink]
    ELSE
    LET unsorted == timeSeriesOf(uplinkFrames, measurement.path, widget.conversion) IN
    IF Len(unsorted) = 0
    THEN [widgetId |-> widget.id, error |-> ErrNoData(measurement.path)]
    ELSE
    LET timeSeries == sortByTimestamp(unsorted)
        latest == timeSeries[Len(timeSeries)]
    IN [widgetId |-> widget.id,
        currentValue |-> latest.value,
        timestamp |-> latest.timestamp,
        timeSeries |-> timeSeries,
        status |-> evaluateStatus(latest.value, measurement.conditions),
        unit |-> getConvertedUnit(measurement.unit, widget.conversion),
        decimals |-> measurement.decimals]

processWidgetDataNoGuard(frames, widget, measurement) ==
    assemble(IF frames = Undefined THEN <<>> ELSE frames.items, widget, measurement)

processWidgetData(frames, widget, measurement) ==
    IF frames = Undefined \/ Len(frames.items) = 0 THEN Null
    ELSE assemble(frames.items, widget, measurement)

---------------------------------------------------------------------------
(* Inputs of the status evaluator *)

MaxConds == 3

Cond(op, value, min, max, status, label) ==
    [operator |-> op, value |-> value, min |-> min, max |-> max,
     status |-> status, label |-> label]

\* StatusCondition values (types/widgets.ts): thresholds 10, 15, 20; value, min
\* and max are optional; status is any StatusLevel and label any string
StatusConditions ==
    { Cond("lt", Num(1000), Undefined, Undefined, "error", "Low"),
      Cond("lte", Num(1000), Undefined, Undefined, "warning", "LowOrEqual"),
      Cond("gt", Num(2000), Undefined, Undefined, "warning", "High"),
      Cond("gte", Num(2000), Undefined, Undefined, "error", "HighOrEqual"),
      Cond("eq", Num(1500), Undefined, Undefined, "success", "Exact"),
      Cond("between", Undefined, Num(1000), Num(2000), "success", "Normal"),
      Cond("between", Undefined, Num(1000), Undefined, "error", "NoMax"),
      Cond("between", Undefined, Undefined, Num(2000), "error", "NoMin"),
      Cond("gt", Undefined, Undefined, Undefined, "error", "NoValue"),
      Cond("gte", Num(0), Undefined, Undefined, "info", "Unknown"),
      Cond("range", Num(1500), Num(1000), Num(2000), "warning", "BadOperator") }

StatusValues ==
    { Num(-500), Num(500), Num(1000), Num(1500), Num(2000), Num(2500), NaN, PosInf }

SeqsUpTo(S, n) == UNION { [1..k -> S] : k \in 0..n }

ConditionLists == {Undefined} \cup { Arr(l) : l \in SeqsUpTo(StatusConditions, MaxConds) }

\* the state of the layout store before the hook is mounted
StoreIdle ==
    /\ localLayout = Undefined
    /\ dashboardData = Undefined
    /\ remote = Undefined
    /\ fetching = FALSE
    /\ timer = FALSE
    /\ inflight = <<>>
    /\ nextId = 1
    /\ writesSinceEdit = 0
    /\ localStorage = Null
    /\ migrationAttempted = FALSE
    /\ migrating = <<>>
    /\ migrateCalls = 0

InitStatus ==
    /\ args \in [fn : {"evaluateStatus"}, value : StatusValues,
                 conditions : ConditionLists]
    /\ ret = NotCalled
    /\ StoreIdle

CallEvaluateStatus ==
    /\ args.fn = "evaluateStatus"
    /\ ret = NotCalled
    /\ ret' = evaluateStatus(args.value, args.conditions)
    /\ UNCHANGED <<args, storeVars>>

NextStatus == CallEvaluateStatus

SpecStatus == InitStatus /\ [][NextStatus]_vars

---------------------------------------------------------------------------
(* Claims on the status evaluator *)

StatusReturned == args.fn = "evaluateStatus" /\ ret # NotCalled

StatusOf(c) == [level |-> c.status, label |-> c.label]

CondItems == IF args.conditions = Undefined THEN <<>> ELSE args.conditions.items

\* C1: evaluateStatus returns the status and label of the first condition, in
\* list order, that matches the value; a later matching condition never wins
\* over an earlier matching one.
C1_FirstMatchWins ==
    StatusReturned =>
        \A i \in 1..Len(CondItems) :
            ( /\ checkCondition(args.value, CondItems[i])
              /\ \A j \in 1..(i - 1) : ~checkCondition(args.value, CondItems[j]) )
            => ret = StatusOf(CondItems[i])

\* C1 witness: two conditions with different results both match, and the
\* earlier one was returned.
C1_Witness ==
    /\ StatusReturned
    /\ \E i, j \in 1..Len(CondItems) :
          /\ i < j
          /\ checkCondition(args.value, CondItems[i])
          /\ checkCondition(args.value, CondItems[j])
          /\ StatusOf(CondItems[i]) # StatusOf(CondItems[j])
          /\ \A h \in 1..(i - 1) : ~checkCondition(args.value, CondItems[h])
          /\ ret = StatusOf(CondItems[i])

\* a <= b on numbers, stated over the number line (NaN is unordered)
NumLeq(a, b) ==
    /\ a.k # "nan" /\ b.k # "nan"
    /\ \/ b.k = "inf"
       \/ a.k = "fin" /\ b.k = "fin" /\ a.v <= b.v

NumLess(a, b) == NumLeq(a, b) /\ ~NumLeq(b, a)

\* what the claim says a condition matches
ClaimMatches(v, c) ==
    CASE c.operator = "between" ->
            c.min # Undefined /\ c.max # Undefined
            /\ NumLeq(c.min, v) /\ NumLeq(v, c.max)
      [] c.operator = "lt" -> c.value # Undefined /\ NumLess(v, c.value)
      [] c.operator = "lte" -> c.value # Undefined /\ NumLeq(v, c.value)
      [] c.operator = "gt" -> c.value # Undefined /\ NumLess(c.value, v)
      [] c.operator = "gte" -> c.value # Undefined /\ NumLeq(c.value, v)
      [] c.operator = "eq" ->
            c.value # Undefined /\ NumLeq(v, c.value) /\ NumLeq(c.value, v)
      [] OTHER -> FALSE

ExampleConditions ==
    Arr(<< Cond("lt", Num(1000), Undefined, Undefined, "error", "Low"),
           Cond("between", Undefined, Num(1000), Num(2000), "success", "Normal") >>)

\* C2: a between condition matches exactly when min and max are both defined
\* and min <= v <= max, the other operators compare v with the single
\* threshold; so the result is that of the first condition matching in this
\* sense, and [lt 10 -> Low, between 10..20 -> Normal] gives Normal for 10.
C2_BetweenInclusive ==
    StatusReturned =>
        /\ \A i \in 1..Len(CondItems) :
              ( /\ ClaimMatches(args.value, CondItems[i])
                /\ \A j \in 1..(i - 1) : ~ClaimMatches(args.value, CondItems[j]) )
              => ret = StatusOf(CondItems[i])
        /\ (\A i \in 1..Len(CondItems) : ~ClaimMatches(args.value, CondItems[i]))
              => ret = DefaultStatus
        /\ (args.conditions = ExampleConditions /\ args.value = Num(1000))
              => ret = [level |-> "success", label |-> "Normal"]

\* C2 witness: the example of the claim, value 10 at the inclusive lower end.
C2_Witness ==
    /\ StatusReturned
    /\ args.conditions = ExampleConditions
    /\ args.value = Num(1000)
    /\ ret = [level |-> "success", label |-> "Normal"]

NoConditionMatches ==
    \A i \in 1..Len(CondItems) : ~checkCondition(args.value, CondItems[i])

\* C3 as claimed: the default {info, Unknown} is returned exactly when the list
\* is absent, empty or has no matching condition.
C3_DefaultExactlyWhenNoMatch ==
    StatusReturned => (ret = DefaultStatus <=> NoConditionMatches)

\* C3 amended: the default {info, Unknown} is returned exactly when the list is
\* absent, empty or has no matching condition, or when the first matching
\* condition itself carries status info and label Unknown.
C3_DefaultWhenNoMatch ==
    StatusReturned =>
        ( ret = DefaultStatus <=>
            \/ NoConditionMatches
            \/ \E i \in 1..Len(CondItems) :
                  /\ checkCondition(args.value, CondItems[i])
                  /\ \A j \in 1..(i - 1) : ~checkCondition(args.value, CondItems[j])
                  /\ StatusOf(CondItems[i]) = DefaultStatus )

\* C3 witness: a non-empty list none of whose conditions matches gave the default.
C3_Witness ==
    /\ StatusReturned
    /\ Len(CondItems) > 0
    /\ NoConditionMatches
    /\ ret = DefaultStatus

---------------------------------------------------------------------------
(* Inputs of the extractor and of the assembler *)

MaxFrames == 3

TempPath == <<"decoded_payload", "object", "TempC_SHT">>

HumPath == <<"decoded_payload", "object", "Hum_SHT">>

\* MeasurementDefinition: a temperature with the status conditions of a
\* catalog entry, and a humidity without status conditions
TempMeasurement ==
    [id |-> "temperature", path |-> TempPath, unit |-> "degC", decimals |-> 1,
     conditions |->
        Arr(<< Cond("lt", Num(1000), Undefined, Undefined, "error", "Low"),
               Cond("between", Undefined, Num(1000), Num(2000), "success", "Normal"),
               Cond("gt", Num(2000), Undefined, Undefined, "warning", "High") >>),
     yAxisMin |-> Num(-1000), yAxisMax |-> Num(4000)]

HumMeasurement ==
    [id |-> "humidity", path |-> HumPath, unit |-> "%", decimals |-> 0,
     conditions |-> Undefined,
     yAxisMin |-> Num(0), yAxisMax |-> Undefined]

Measurements == {TempMeasurement, HumMeasurement}

\* ConversionSettings of a WidgetInstance
Conversions ==
    { Undefined,
      [enabled |-> FALSE, convertTo |-> Str("kelvin")],
      [enabled |-> TRUE, convertTo |-> Str("fahrenheit")],
      [enabled |-> TRUE, convertTo |-> Str("kelvin")] }

Widgets == { [id |-> "w1", conversion |-> c] : c \in Conversions }

TsA == Str("2024-01-01T01:00:00Z")

TsB == Str("2024-01-01T04:00:00+02:00")

TsC == Str("2024-01-01T03:00:00Z")

Timestamps == {TsA, TsB, TsC}

Payload1 == Obj([object |-> Obj([TempC_SHT |-> Num(1000), Hum_SHT |-> Num(5000)])])

Payload2 == Obj([object |-> Obj([TempC_SHT |-> Num(2500)])])

\* FrameData, with and without received_at and decoded_payload
FD(ts, payload) ==
    Obj([dev_eui |-> Str("a84041"), received_at |-> ts, decoded_payload |-> payload])

FDNoPayload(ts) == Obj([dev_eui |-> Str("a84041"), received_at |-> ts])

FDNoTime(payload) == Obj([dev_eui |-> Str("a84041"), decoded_payload |-> payload])

UplinkData ==
    { FD(ts, pl) : ts \in Timestamps, pl \in {Payload1, Payload2} }
      \cup { FDNoPayload(TsA), FDNoTime(Payload1), FDNoTime(Payload2) }

\* Frame: wrapped under its direction, or flat (SELECT uplink)
WrappedUplinks == { Obj([Uplink |-> fd]) : fd \in UplinkData }

FlatUplinks == { FD(TsB, Payload1), FD(TsA, Payload2), FDNoTime(Payload2) }

OtherFrames ==
    { Obj([Join |-> FD(TsC, Payload2)]),
      Obj([Downlink |-> FD(TsC, Payload1)]),
      Obj([received_at |-> TsC, decoded_payload |-> Payload1]) }

Frames == WrappedUplinks \cup FlatUplinks \cup OtherFrames

FrameLists == {Undefined} \cup { Arr(l) : l \in SeqsUpTo(Frames, MaxFrames) }

InitPWD ==
    /\ args \in [fn : {"processWidgetData"}, frames : FrameLists,
                 widget : Widgets, measurement : Measurements]
    /\ ret = NotCalled
    /\ StoreIdle

CallProcessWidgetData ==
    /\ args.fn = "processWidgetData"
    /\ ret = NotCalled
    /\ ret' = processWidgetData(args.frames, args.widget, args.measurement)
    /\ UNCHANGED <<args, storeVars>>

NextPWD == CallProcessWidgetData

SpecPWD == InitPWD /\ [][NextPWD]_vars

\* values a decoded payload can hold at a path
PayloadValues ==
    { Num(0), Num(2150), Num(-500), PosInf,
      Str(""), Str("12.5"), Str("abc"), Str("Infinity"),
      Bool(TRUE), Bool(FALSE), Null,
      Arr(<<>>), Arr(<<Num(700)>>), Arr(<<Num(1), Num(2)>>), Arr(<<Bool(TRUE)>>),
      Obj([nested |-> Num(1)]) }

ExtractFrames ==
    { Obj([dev_eui |-> Str("a84041"), received_at |-> TsA,
           decoded_payload |-> Obj([object |-> Obj([TempC_SHT |-> x])])])
        : x \in PayloadValues }
    \cup
    { Obj([dev_eui |-> Str("a84041"), received_at |-> TsA,
           decoded_payload |-> Obj([object |-> Obj([TempC_SHT |-> x, Hum_SHT |-> Num(5000)])])])
        : x \in PayloadValues }
    \cup
    { FDNoPayload(TsA),
      Obj([dev_eui |-> Str("a84041"), decoded_payload |-> Null]),
      Obj([dev_eui |-> Str("a84041"), decoded_payload |-> Obj([object |-> Str("raw")])]) }

ExtractPaths ==
    { TempPath, HumPath, <<"dev_eui">>, <<"f_port">>,
      <<"decoded_payload", "object", "TempC_SHT", "nested">> }

InitExtract ==
    /\ args \in [fn : {"extractMeasurementValue"}, frame : ExtractFrames,
                 path : ExtractPaths]
    /\ ret = NotCalled
    /\ StoreIdle

CallExtractMeasurementValue ==
    /\ args.fn = "extractMeasurementValue"
    /\ ret = NotCalled
    /\ ret' = extractMeasurementValue(args.frame, args.path)
    /\ UNCHANGED <<args, storeVars>>

NextExtract == CallExtractMeasurementValue

SpecExtract == InitExtract /\ [][NextExtract]_vars

---------------------------------------------------------------------------
(* Claims on the assembler *)

PWDReturned == args.fn = "processWidgetData" /\ ret # NotCalled

FrameItems == IF args.frames = Undefined THEN <<>> ELSE args.frames.items

HasSeries == PWDReturned /\ "timeSeries" \in DOMAIN ret

IsError == PWDReturned /\ "error" \in DOMAIN ret

\* hours since midnight of a point's timestamp
TimeOf(p) == DateGetTime(p.timestamp).v

\* the uplink data of a frame as the claims describe it: the object under
\* Uplink, or the frame itself when it is flat and names its device
IsUplinkFrame(f) ==
    \/ "Uplink" \in DOMAIN f.fields
    \/ /\ DOMAIN f.fields \cap {"Uplink", "Downlink", "Join"} = {}
       /\ "dev_eui" \in DOMAIN f.fields

UplinkDataOf(f) == IF "Uplink" \in DOMAIN f.fields THEN f.fields.Uplink ELSE f

\* the frame is an uplink with a timestamp and a value at the measurement path
YieldsPoint(f) ==
    /\ IsUplinkFrame(f)
    /\ "received_at" \in DOMAIN UplinkDataOf(f).fields
    /\ extractMeasurementValue(UplinkDataOf(f), args.measurement.path) # Null

PointOf(f) ==
    [timestamp |-> UplinkDataOf(f).fields.received_at,
     value |-> convertTemperature(
                 extractMeasurementValue(UplinkDataOf(f), args.measurement.path),
                 args.widget.conversion)]

YieldingIndexes == { i \in 1..Len(FrameItems) : YieldsPoint(FrameItems[i]) }

\* C4: whatever the input order of the frames, the returned timeSeries is
\* sorted ascending by timestamp, and currentValue and timestamp are those of
\* a point with the latest timestamp.
C4_SortedLatestIsCurrent ==
    HasSeries =>
        /\ \A i, j \in 1..Len(ret.timeSeries) :
              i < j => TimeOf(ret.timeSeries[i]) <= TimeOf(ret.timeSeries[j])
        /\ \E i \in 1..Len(ret.timeSeries) :
              /\ ret.timeSeries[i].timestamp = ret.timestamp
              /\ ret.timeSeries[i].value = ret.currentValue
        /\ \A i \in YieldingIndexes :
              TimeOf(PointOf(FrameItems[i])) <= DateGetTime(ret.timestamp).v

\* C4 witness: the last frame in input order yields a point older than an
\* earlier frame's, and the current value is not the last frame's value.
C4_Witness ==
    /\ HasSeries
    /\ Len(FrameItems) \in YieldingIndexes
    /\ \E i \in YieldingIndexes :
          TimeOf(PointOf(FrameItems[i])) > TimeOf(PointOf(FrameItems[Len(FrameItems)]))
    /\ ret.currentValue # PointOf(FrameItems[Len(FrameItems)]).value
    /\ Len(ret.timeSeries) = 3

C6_ErrorExactlyWhenNoPoint ==
    (PWDReturned /\ Len(FrameItems) > 0) =>
        /\ ret # Null
        /\ IsError <=> YieldingIndexes = {}
        /\ IsError =>
              /\ DOMAIN ret = {"widgetId", "error"}
              /\ ret.error =
                    IF \E i \in 1..Len(FrameItems) : IsUplinkFrame(FrameItems[i])
                    THEN ErrNoData(args.measurement.path)
                    ELSE ErrNoUplink

\* C6 witness: uplink frames exist, none has a value at the path, and the
\* error names the path.
C6_Witness ==
    /\ IsError
    /\ Len(FrameItems) > 1
    /\ \A i \in 1..Len(FrameItems) :
          /\ IsUplinkFrame(FrameItems[i])
          /\ "received_at" \in DOMAIN UplinkDataOf(FrameItems[i]).fields
    /\ ret.error = ErrNoData(args.measurement.path)

\* C7: the timeSeries holds exactly one point per uplink frame, wrapped or
\* flat, that has a timestamp and a value at the path; join and downlink
\* frames add none, and frames failing extraction are skipped without an
\* error while a point remains.
C7_OnePointPerUplinkFrame ==
    (PWDReturned /\ Len(FrameItems) > 0) =>
        /\ HasSeries <=> YieldingIndexes # {}
        /\ HasSeries =>
              /\ Len(ret.timeSeries) = Cardinality(YieldingIndexes)
              /\ \A i \in YieldingIndexes :
                    Cardinality({ j \in 1..Len(ret.timeSeries) :
                                    ret.timeSeries[j] = PointOf(FrameItems[i]) })
                    = Cardinality({ j \in YieldingIndexes :
                                    PointOf(FrameItems[j]) = PointOf(FrameItems[i]) })

\* C7 witness: a flat uplink frame gave the only point, next to a join frame
\* and a wrapped uplink frame without a value.
C7_Witness ==
    /\ HasSeries
    /\ Len(ret.timeSeries) = 1
    /\ \E i, j, h \in 1..Len(FrameItems) :
          /\ "Uplink" \notin DOMAIN FrameItems[i].fields
          /\ i \in YieldingIndexes
          /\ "Join" \in DOMAIN FrameItems[j].fields
          /\ "Uplink" \in DOMAIN FrameItems[h].fields
          /\ h \notin YieldingIndexes

ConversionDisabledResult ==
    processWidgetData(args.frames, [args.widget EXCEPT !.conversion = Undefined],
                      args.measurement)

\* C9: for a measurement whose unit is not the temperature unit, conversion
\* enabled gives the same time series, current value, axis bounds and unit
\* label as conversion disabled; and for every measurement the values are
\* converted if and only if the unit label is.
C9_ConversionOnlyForCelsius ==
    HasSeries =>
        /\ args.measurement.unit # "degC" =>
              /\ ret.timeSeries = ConversionDisabledResult.timeSeries
              /\ ret.currentValue = ConversionDisabledResult.currentValue
              /\ ret.unit = ConversionDisabledResult.unit
              /\ getConvertedYAxisRange(args.measurement.yAxisMin,
                        args.measurement.yAxisMax, args.widget.conversion)
                   = [min |-> args.measurement.yAxisMin,
                      max |-> args.measurement.yAxisMax]
        /\ (ret.timeSeries # ConversionDisabledResult.timeSeries)
              <=> (ret.unit # ConversionDisabledResult.unit)

---------------------------------------------------------------------------
(* Claims on the extractor *)

ExtractReturned == args.fn = "extractMeasurementValue" /\ ret # NotCalled

ResolvedValue == getNestedValue(args.frame, args.path)

IsFiniteNumber(x) == x.t = "number" /\ x.k = "fin"

\* C8: extractMeasurementValue returns null whenever the path is missing or
\* the value found there is not a finite number, and returns a number only
\* when the resolved value is a finite number, that number.
C8_NullUnlessFiniteNumber ==
    ExtractReturned =>
        /\ ~IsFiniteNumber(ResolvedValue) => ret = Null
        /\ IsFiniteNumber(ResolvedValue) => ret = ResolvedValue

---------------------------------------------------------------------------
(* Dashboard layout store: useDashboardLayout *)

MaxWidgets == 2

MaxInflight == 2

\* writesSinceEdit counts up to MaxWrites and stays there
MaxWrites == 2

\* getDefaultLayout()
getDefaultLayout ==
    [version |-> Str("1.0"), timeRange |-> Str("24h"), autoRefresh |-> Bool(TRUE),
     refreshInterval |-> Num(6000), widgets |-> <<>>, layouts |-> [lg |-> <<>>]]

\* widget[key] of a WidgetInstance: undefined when the key is absent
WGet(widget, key) == IF key \in DOMAIN widget THEN widget[key] ELSE Undefined

\* the two shapes handleSubmit builds; ids stand for the uuidv4 strings
LegacyWidget(id) ==
    [id |-> id, measurementId |-> Str("temperature"),
     widgetType |-> Str("current-value"), title |-> Undefined]

TemplateWidget(id) ==
    [id |-> id, templateId |-> Str("overview"), title |-> Undefined]

\* the widget the modal submits: the first one added in a session is a
\* legacy widget, the next one a template widget
NewWidgets(id) == IF id = 1 THEN {LegacyWidget(id)} ELSE {TemplateWidget(id)}

\* Partial<WidgetInstance> passed to updateWidget
WidgetUpdates == { [title |-> Str("Renamed")] }

\* defaultSizeByType[widget.widgetType] || {w: 4, h: 4}, or {w: 8, h: 6}
defaultSize(widget) ==
    IF Truthy(WGet(widget, "widgetType"))
    THEN CASE widget.widgetType \in {Str("current-value"), Str("status")} ->
                 [w |-> 3, h |-> 2]
           [] widget.widgetType = Str("time-series") -> [w |-> 6, h |-> 4]
           [] OTHER -> [w |-> 4, h |-> 4]
    ELSE [w |-> 8, h |-> 6]

RECURSIVE maxBottom(_, _)
\* Math.max(...existingWidgets.map((w) => w.y + w.h)), 0 for an empty list
maxBottom(lg, i) ==
    IF i > Len(lg) THEN 0
    ELSE LET rest == maxBottom(lg, i + 1)
             here == lg[i].y + lg[i].h
         IN IF here > rest THEN here ELSE rest

RECURSIVE filterSeq(_, _, _)
\* Array.prototype.filter, keeping the items whose id field differs from id
filterSeq(items, field, id) ==
    IF items = <<>> THEN <<>>
    ELSE IF Head(items)[field] # id
         THEN <<Head(items)>> \o filterSeq(Tail(items), field, id)
         ELSE filterSeq(Tail(items), field, id)

\* {...w, ...updates}: the keys of updates win
spread(w, updates) ==
    [key \in DOMAIN w \cup DOMAIN updates |->
        IF key \in DOMAIN updates THEN updates[key] ELSE w[key]]

addWidgetAtTop(prev, widget) ==
    [prev EXCEPT
       !.widgets = Append(prev.widgets, widget),
       !.layouts.lg = Append(prev.layouts.lg,
             [i |-> widget.id, x |-> 0, y |-> 0,
              w |-> defaultSize(widget).w, h |-> defaultSize(widget).h])]

addWidget(prev, widget) ==
    LET maxY == maxBottom(prev.layouts.lg, 1)
        size == defaultSize(widget)
    IN [prev EXCEPT
          !.widgets = Append(prev.widgets, widget),
          !.layouts.lg = Append(prev.layouts.lg,
                [i |-> widget.id, x |-> 0, y |-> maxY, w |-> size.w, h |-> size.h])]

updateWidget(prev, id, updates) ==
    [prev EXCEPT !.widgets =
        [n \in 1..Len(prev.widgets) |->
            IF prev.widgets[n].id = id THEN spread(prev.widgets[n], updates)
            ELSE prev.widgets[n]]]

deleteWidget(prev, id) ==
    [prev EXCEPT !.widgets = filterSeq(prev.widgets, "id", id),
                 !.layouts.lg = filterSeq(prev.layouts.lg, "i", id)]

updateLayout(prev, newLayout) == [prev EXCEPT !.layouts.lg = newLayout]

\* importDashboardConfig on the parsed document: throws when version, widgets
\* or layouts is falsy (an array or an object is truthy, a missing key is not)
importDashboardConfig(doc) ==
    IF ~Truthy(WGet(doc, "version")) \/ "widgets" \notin DOMAIN doc
         \/ "layouts" \notin DOMAIN doc
    THEN [t |-> "throw"]
    ELSE doc

\* a widget and a position entry written by another session
ImportedWidget == LegacyWidget(0)

ImportedEntry == [i |-> 0, x |-> 0, y |-> 0, w |-> 3, h |-> 2]

\* documents a user can hand to the import: one with a position entry that
\* has no widget, and two the import rejects
ImportDocs ==
    { [getDefaultLayout EXCEPT !.layouts.lg = <<ImportedEntry>>],
      [version |-> Str("1.0"), layouts |-> [lg |-> <<ImportedEntry>>]],
      [widgets |-> <<ImportedWidget>>, layouts |-> [lg |-> <<ImportedEntry>>]] }

\* cols={12}
cols == 12

\* grid cells an item is dropped on
Columns == {0, 8}

Rows == {0, 2, 6}

\* two position entries cover a common cell
collides(a, b) ==
    /\ a.x < b.x + b.w /\ b.x < a.x + a.w
    /\ a.y < b.y + b.h /\ b.y < a.y + a.h

\* compactType="vertical": an item sits on the top row or on another item
rests(l, n) ==
    \/ l[n].y = 0
    \/ \E m \in DOMAIN l :
          /\ m # n /\ l[m].y + l[m].h = l[n].y
          /\ l[m].x < l[n].x + l[n].w /\ l[n].x < l[m].x + l[m].w

RECURSIVE entryFor(_, _, _)
\* the first entry of the layout prop whose i is the child's key; a child
\* without one gets a 1 x 1 entry from react-grid-layout
entryFor(lg, id, n) ==
    IF n > Len(lg) THEN [i |-> id, x |-> 0, y |-> 0, w |-> 1, h |-> 1]
    ELSE IF lg[n].i = id THEN lg[n] ELSE entryFor(lg, id, n + 1)

\* the layouts react-grid-layout reports: one entry per rendered child, keyed
\* by the child's key (widget.id), in child order, each with the size of its
\* entry in the layout prop; items stay inside the columns, do not collide
\* and are compacted upwards
GridLayouts(prev) ==
    { l \in { [n \in 1..Len(prev.widgets) |->
                [entryFor(prev.layouts.lg, prev.widgets[n].id, 1)
                    EXCEPT !.x = cell[n].x, !.y = cell[n].y]] :
              cell \in [1..Len(prev.widgets) -> [x : Columns, y : Rows]] } :
        \A n \in DOMAIN l :
            /\ l[n].x + l[n].w <= cols
            /\ rests(l, n)
            /\ \A m \in DOMAIN l : m # n => ~collides(l[m], l[n]) }

\* the remote store when the session starts: the empty default dashboard
RemoteInit ==
    { [id |-> Str("default"), version |-> Str("1.0"), timeRange |-> Str("24h"),
       autoRefresh |-> Bool(TRUE), refreshInterval |-> Num(6000),
       widgets |-> <<>>, layouts |-> [lg |-> <<>>]] }

InitStore ==
    /\ args = Undefined
    /\ ret = NotCalled
    /\ localLayout = getDefaultLayout
    /\ dashboardData = Undefined
    /\ remote \in RemoteInit
    /\ fetching = TRUE
    /\ timer = TRUE
    /\ inflight = <<>>
    /\ nextId = 1
    /\ writesSinceEdit = 0
    /\ localStorage = Null
    /\ migrationAttempted = FALSE
    /\ migrating = <<>>
    /\ migrateCalls = 0

\* setLocalLayout: every state change renders the hook again; saveToAPI
\* depends on the object useMutation returns, which is new on every render,
\* so the debounce effect clears its timeout and arms a new one
SetLocalLayout(layout) ==
    /\ localLayout' = layout
    /\ timer' = TRUE

\* a user edit of the layout
Edit(layout) ==
    /\ SetLocalLayout(layout)
    /\ writesSinceEdit' = 0

AddWidget ==
    /\ nextId <= MaxWidgets
    /\ Len(localLayout.widgets) < MaxWidgets
    /\ \E widget \in NewWidgets(nextId) :
          Edit(addWidget(localLayout, widget))
    /\ nextId' = nextId + 1
    /\ UNCHANGED <<migrationVars, args, ret, dashboardData, remote, fetching, inflight>>

UpdateWidget ==
    /\ \E n \in 1..Len(localLayout.widgets), updates \in WidgetUpdates :
          Edit(updateWidget(localLayout, localLayout.widgets[n].id, updates))
    /\ UNCHANGED <<migrationVars, args, ret, dashboardData, remote, fetching, inflight, nextId>>

DeleteWidget ==
    /\ \E n \in 1..Len(localLayout.widgets) :
          Edit(deleteWidget(localLayout, localLayout.widgets[n].id))
    /\ UNCHANGED <<migrationVars, args, ret, dashboardData, remote, fetching, inflight, nextId>>

UpdateLayout ==
    /\ \E newLayout \in GridLayouts(localLayout) :
          /\ newLayout # localLayout.layouts.lg
          /\ Edit(updateLayout(localLayout, newLayout))
    /\ UNCHANGED <<migrationVars, args, ret, dashboardData, remote, fetching, inflight, nextId>>

ResetDashboard ==
    /\ Edit(getDefaultLayout)
    /\ UNCHANGED <<migrationVars, args, ret, dashboardData, remote, fetching, inflight, nextId>>

\* loadLayout on a document importDashboardConfig returns; nothing is loaded
\* when the import throws
LoadLayout ==
    /\ \E doc \in ImportDocs :
          /\ importDashboardConfig(doc) # [t |-> "throw"]
          /\ Edit(importDashboardConfig(doc))
    /\ UNCHANGED <<migrationVars, args, ret, dashboardData, remote, fetching, inflight, nextId>>

\* the DashboardLayout the sync effect builds from the query data
fromDashboardData(data) ==
    [version |-> data.version, timeRange |-> data.timeRange,
     autoRefresh |-> data.autoRefresh, refreshInterval |-> data.refreshInterval,
     widgets |-> data.widgets, layouts |-> data.layouts]

payloadWithoutLayouts(layout) ==
    [timeRange |-> layout.timeRange, autoRefresh |-> layout.autoRefresh,
     refreshInterval |-> layout.refreshInterval, widgets |-> layout.widgets,
     layouts |-> getDefaultLayout.layouts]

\* the body mutationFn hands to updateDashboard
payload(layout) ==
    [timeRange |-> layout.timeRange, autoRefresh |-> layout.autoRefresh,
     refreshInterval |-> layout.refreshInterval, widgets |-> layout.widgets,
     layouts |-> layout.layouts]

\* the stored document after updateDashboard(id, data)
stored(doc, data) ==
    [doc EXCEPT !.timeRange = data.timeRange, !.autoRefresh = data.autoRefresh,
                !.refreshInterval = data.refreshInterval,
                !.widgets = data.widgets, !.layouts = data.layouts]

\* the stored document after migrateDashboard({dashboard})
migrated(doc, dashboard) == stored(doc, payload(dashboard))

\* loadDashboardLayout: null when the item is absent, does not parse or has
\* another version
loadDashboardLayout(item) ==
    IF "version" \notin DOMAIN item THEN Null
    ELSE IF item.version # Str("1.0") THEN Null
    ELSE item

MaxMigrateCalls == 2

\* the migration effect, run with the dashboard data that has just arrived:
\* up to the await of migrateDashboard.  The remote store applies the
\* migration ("ok") or rejects it ("error"); the response is handled later
attemptMigration(data) ==
    IF migrationAttempted THEN UNCHANGED <<migrationVars, remote>>
    ELSE LET localStorageData == loadDashboardLayout(localStorage) IN
         IF localStorageData = Null
         THEN /\ migrationAttempted' = TRUE
              /\ UNCHANGED <<localStorage, migrating, migrateCalls, remote>>
         ELSE IF Len(localStorageData.widgets) = 0 \/ Len(data.widgets) # 0
         THEN /\ migrationAttempted' = TRUE
              /\ UNCHANGED <<localStorage, migrating, migrateCalls, remote>>
         ELSE /\ migrateCalls < MaxMigrateCalls
              /\ migrateCalls' = migrateCalls + 1
              /\ UNCHANGED <<localStorage, migrationAttempted>>
              /\ \/ /\ migrating' = Append(migrating, "ok")
                    /\ remote' = migrated(remote, localStorageData)
                 \/ /\ migrating' = Append(migrating, "error")
                    /\ UNCHANGED remote

\* getDefaultDashboard resolves.  The query keeps its data object when the
\* response equals it (structural sharing); otherwise the sync effect
\* replaces the in-memory layout and the migration effect runs
QueryResolves ==
    /\ fetching
    /\ fetching' = FALSE
    /\ IF dashboardData = remote
       THEN /\ UNCHANGED <<dashboardData, localLayout, migrationVars, remote>>
            /\ timer' = TRUE
       ELSE /\ dashboardData' = remote
            /\ SetLocalLayout(fromDashboardData(remote))
            /\ attemptMigration(remote)
    /\ UNCHANGED <<args, ret, inflight, nextId, writesSinceEdit>>

\* getDefaultDashboard fails (after its retry)
QueryFails ==
    /\ fetching
    /\ fetching' = FALSE
    /\ timer' = TRUE
    /\ UNCHANGED <<migrationVars, args, ret, localLayout, dashboardData, remote, inflight, nextId,
                   writesSinceEdit>>

RemoveAt(q, n) ==
    [m \in 1..(Len(q) - 1) |-> IF m < n THEN q[m] ELSE q[m + 1]]

\* the debounce timeout fires: saveToAPI(localLayout).  Without a dashboard
\* id nothing is sent.  Otherwise updateMutation.mutate sends the layout as it
\* is now; the remote store applies the write ("ok") or rejects it ("error")
\* on arrival, and the response is handled later
TimerFires ==
    /\ timer
    /\ IF dashboardData = Undefined
       THEN timer' = FALSE /\ UNCHANGED <<inflight, remote, writesSinceEdit>>
       ELSE /\ Len(inflight) < MaxInflight
            /\ timer' = TRUE
            /\ writesSinceEdit' =
                  IF writesSinceEdit < MaxWrites THEN writesSinceEdit + 1 ELSE MaxWrites
            /\ \/ /\ inflight' = Append(inflight, "ok")
                  /\ remote' = stored(remote, payload(localLayout))
               \/ /\ inflight' = Append(inflight, "error")
                  /\ UNCHANGED remote
    /\ UNCHANGED <<migrationVars, args, ret, localLayout, dashboardData, fetching, nextId>>

\* updateMutation.onSuccess: invalidateQueries makes the dashboard query
\* fetch again
SaveCompletes ==
    /\ \E n \in 1..Len(inflight) :
          /\ inflight[n] = "ok"
          /\ inflight' = RemoveAt(inflight, n)
    /\ fetching' = TRUE
    /\ timer' = TRUE
    /\ UNCHANGED <<migrationVars, args, ret, localLayout, dashboardData, remote, nextId, writesSinceEdit>>

\* the mutation ends in error: nothing is invalidated
SaveFails ==
    /\ \E n \in 1..Len(inflight) :
          /\ inflight[n] = "error"
          /\ inflight' = RemoveAt(inflight, n)
    /\ timer' = TRUE
    /\ UNCHANGED <<migrationVars, args, ret, localLayout, dashboardData, remote, fetching, nextId,
                   writesSinceEdit>>

NextStore ==
    \/ AddWidget
    \/ UpdateWidget
    \/ DeleteWidget
    \/ UpdateLayout
    \/ ResetDashboard
    \/ LoadLayout
    \/ QueryResolves
    \/ QueryFails
    \/ TimerFires
    \/ SaveCompletes
    \/ SaveFails

SpecStore == InitStore /\ [][NextStore]_vars

\* the timeout fires 3 s after it was armed, and every request gets its
\* response
FairStore ==
    /\ WF_vars(TimerFires)
    /\ WF_vars(QueryResolves \/ QueryFails)
    /\ WF_vars(SaveCompletes)
    /\ WF_vars(SaveFails)

SpecStoreFair == SpecStore /\ FairStore

---------------------------------------------------------------------------
(* The layout operations on their own: addWidget, updateWidget, deleteWidget *)

\* the widget the config modal submits when an existing widget is edited:
\* handleSubmit builds the whole object again, in the mode chosen in the form
ModalEdits(id) == {LegacyWidget(id), TemplateWidget(id)}

\* widget lists with distinct ids, as the modal creates them
OpsWidgetLists ==
    { ws \in SeqsUpTo(UNION { ModalEdits(id) : id \in 1..MaxWidgets }, MaxWidgets) :
        \A n, m \in DOMAIN ws : n # m => ws[n].id # ws[m].id }

RECURSIVE addAll(_, _, _)
\* the layout after addWidget on each widget of ws in turn
addAll(prev, ws, n) ==
    IF n > Len(ws) THEN prev ELSE addAll(addWidget(prev, ws[n]), ws, n + 1)

\* a layout that also holds a list for the md breakpoint (layouts.md is
\* optional in DashboardLayout; a document from the import or from the
\* server can carry it)
withMd(layout) ==
    [layout EXCEPT !.layouts = [lg |-> layout.layouts.lg, md |-> layout.layouts.lg]]

\* layouts the operations are applied to: what addWidget builds, what a drag
\* makes of it, and the same with an md list
OpsLayouts ==
    LET built == { addAll(getDefaultLayout, ws, 1) : ws \in OpsWidgetLists }
        dragged == UNION { { updateLayout(b, l) : l \in GridLayouts(b) } : b \in built }
    IN (built \cup dragged) \cup { withMd(b) : b \in built \cup dragged }

\* the id of a widget not in any of the lists
FreshId == MaxWidgets + 1

InitOps ==
    /\ args \in [fn : {"addWidget"}, prev : OpsLayouts,
                  widget : ModalEdits(FreshId)]
           \cup UNION { [fn : {"updateWidget"}, prev : OpsLayouts, id : {id},
                          updates : WidgetUpdates \cup ModalEdits(id)] :
                         id \in 1..FreshId }
           \cup [fn : {"deleteWidget"}, prev : OpsLayouts, id : 1..FreshId]
    /\ ret = NotCalled
    /\ StoreIdle

CallAddWidget ==
    /\ args.fn = "addWidget"
    /\ ret = NotCalled
    /\ ret' = addWidget(args.prev, args.widget)
    /\ UNCHANGED <<args, storeVars>>

CallUpdateWidget ==
    /\ args.fn = "updateWidget"
    /\ ret = NotCalled
    /\ ret' = updateWidget(args.prev, args.id, args.updates)
    /\ UNCHANGED <<args, storeVars>>

CallDeleteWidget ==
    /\ args.fn = "deleteWidget"
    /\ ret = NotCalled
    /\ ret' = deleteWidget(args.prev, args.id)
    /\ UNCHANGED <<args, storeVars>>

NextOps ==
    \/ CallAddWidget
    \/ CallUpdateWidget
    \/ CallDeleteWidget

SpecOps == InitOps /\ [][NextOps]_vars

---------------------------------------------------------------------------
(* Composite widgets: CompositeDeviceWidget *)

RECURSIVE find(_, _, _, _)
\* Array.prototype.find on the items whose field equals value: the first such
\* item, undefined when there is none
find(items, field, value, n) ==
    IF n > Len(items) THEN Undefined
    ELSE IF items[n][field] = value THEN items[n]
    ELSE find(items, field, value, n + 1)

\* size ? `widget-${size}` : 'widget-medium'
sizeClass(size) ==
    IF size = Str("small") THEN "widget-small"
    ELSE IF size = Str("large") THEN "widget-large"
    ELSE "widget-medium"

\* the component each known display type is drawn with
ComponentOf(type) ==
    CASE type = "current-value" -> "CurrentValueWidget"
      [] type = "time-series" -> "TimeSeriesWidget"
      [] type = "gauge" -> "GaugeWidget"
      [] type = "status" -> "StatusWidget"

WidgetTypes == {"current-value", "time-series", "gauge", "status"}

\* renderWidget(type, measurementId, data, size)
renderWidget(deviceType, type, measurementId, data, size) ==
    IF find(deviceType.measurements, "id", measurementId, 1) = Undefined
    THEN [el |-> "widget-error", text |-> "Measurement not found",
          subject |-> measurementId]
    ELSE IF type \in WidgetTypes
    THEN [el |-> "composite-widget-item", key |-> <<measurementId, type>>,
          class |-> sizeClass(size), component |-> ComponentOf(type),
          data |-> data, measurement |-> measurementId]
    ELSE [el |-> "widget-error", key |-> <<measurementId, type>>,
          text |-> "Unknown widget type", subject |-> type]

\* widget.sectionOverrides?.[measurementId]
overrideOf(widget, measurementId) ==
    Get(WGet(widget, "sectionOverrides"), measurementId)

\* section.layout?.[type]?.size
sizeOf(section, type) == Get(Get(WGet(section, "layout"), type), "size")

displayTypesDefaultOnly(widget, section, measurementId) == section.displayTypes

\* widget.sectionOverrides?.[measurementId]?.displayTypes || section.displayTypes
displayTypesOf(widget, section, measurementId) ==
    IF Truthy(Get(overrideOf(widget, measurementId), "displayTypes"))
    THEN Get(overrideOf(widget, measurementId), "displayTypes").items
    ELSE section.displayTypes

\* the section element of one measurement that has data
sectionElement(widget, deviceType, section, measurementId, data) ==
    LET displayTypes == displayTypesOf(widget, section, measurementId)
        measurement == find(deviceType.measurements, "id", measurementId, 1)
    IN [el |-> "composite-section", key |-> measurementId,
        label |-> IF measurement = Undefined THEN Undefined ELSE measurement.name,
        children |->
            [n \in 1..Len(displayTypes) |->
                renderWidget(deviceType, displayTypes[n], measurementId,
                             data.data, sizeOf(section, displayTypes[n]))]]

\* renderSection(section): null, one element, or (for a section with a list
\* of measurement ids) an array of elements and nulls
renderSection(widget, deviceType, measurementData, section) ==
    IF section.measurementId.t = "array"
    THEN LET ids == section.measurementId.items
         IN IF Truthy(Get(overrideOf(widget, ids[1]), "hidden"))
            THEN Null
            ELSE Arr([n \in 1..Len(ids) |->
                    LET data == find(measurementData, "measurementId", ids[n], 1)
                    IN IF data = Undefined THEN Null
                       ELSE sectionElement(widget, deviceType, section, ids[n], data)])
    ELSE LET measurementId == section.measurementId.s
             data == find(measurementData, "measurementId", measurementId, 1)
         IN IF Truthy(Get(overrideOf(widget, measurementId), "hidden"))
            THEN Null
            ELSE IF data = Undefined
            THEN [el |-> "composite-section", key |-> measurementId,
                  children |-> <<[el |-> "widget-no-data", subject |-> measurementId]>>]
            ELSE sectionElement(widget, deviceType, section, measurementId, data)

\* the body of the composite widget: template.sections.map(renderSection)
CompositeDeviceWidget(widget, deviceType, template, measurementData) ==
    [n \in 1..Len(template.sections) |->
        renderSection(widget, deviceType, measurementData, template.sections[n])]

\* measurement ids a template can name; the device type defines the first two
MeasurementIds == <<"temperature", "humidity", "battery">>

DeviceType ==
    [deviceType |-> "lht65",
     measurements |-> <<[id |-> "temperature", name |-> "Temperature"],
                        [id |-> "humidity", name |-> "Humidity"]>>]

SecTemp ==
    [measurementId |-> Str("temperature"),
     displayTypes |-> <<"current-value", "time-series">>,
     layout |-> Obj([type \in {"time-series"} |-> Obj([size |-> Str("large")])])]

\* a section whose template lists a display type the renderer does not know
SecHum ==
    [measurementId |-> Str("humidity"), displayTypes |-> <<"gauge", "map">>]

\* a section for a measurement the device type does not define
SecBattery ==
    [measurementId |-> Str("battery"), displayTypes |-> <<"status">>]

\* a combined-chart section
SecCombined ==
    [measurementId |-> Arr(<<"temperature", "humidity">>),
     displayTypes |-> <<"time-series">>, combinedChart |-> Bool(TRUE)]

Templates ==
    { [id |-> "overview", sections |-> secs] :
        secs \in { <<SecTemp, SecHum>>, <<SecCombined>>, <<SecTemp, SecCombined>>,
                   <<SecCombined, SecBattery>>, <<SecHum, SecBattery>> } }

\* what the customization form stores for one measurement
Overrides ==
    { Obj([hidden |-> Bool(TRUE)]), Obj([hidden |-> Bool(FALSE)]),
      Obj([displayTypes |-> Arr(<<"status", "gauge">>)]),
      Obj([hidden |-> Bool(FALSE), displayTypes |-> Arr(<<>>)]) }

MeasurementIdSet == { MeasurementIds[n] : n \in DOMAIN MeasurementIds }

\* sectionOverrides: undefined, or an object keyed by measurement id
SectionOverrides ==
    {Undefined} \cup
    { Obj(f) : f \in UNION { [K -> Overrides] : K \in SUBSET MeasurementIdSet \ {{}} } }

CompositeWidgets ==
    { [id |-> 1, templateId |-> Str("overview"), title |-> Undefined,
       sectionOverrides |-> so] : so \in SectionOverrides }

Absent == [t |-> "absent"]

\* WidgetData of one measurement: a value, an error result, no value
DataVariants ==
    { [widgetId |-> "w1", currentValue |-> Num(2150), unit |-> Str("degC")],
      [widgetId |-> "w1", error |-> Str("No uplink frames found")],
      [widgetId |-> "w1"] }

\* measurementData: at most one entry per measurement id, in a fixed order
MeasurementDataLists ==
    { LET present(id) == c[id] # Absent
          ids == SelectSeq(MeasurementIds, present)
      IN [n \in 1..Len(ids) |-> [measurementId |-> ids[n], data |-> c[ids[n]]]] :
        c \in [MeasurementIdSet -> DataVariants \cup {Absent}] }

\* WidgetRenderer({widget, data, measurement})
WidgetRenderer(widget, data, measurement) ==
    IF WGet(widget, "widgetType") \in { Str(type) : type \in WidgetTypes }
    THEN [component |-> ComponentOf(widget.widgetType.s), data |-> data,
          measurement |-> measurement.id]
    ELSE [el |-> "widget-error", text |-> "Unknown widget type",
          subject |-> WGet(widget, "widgetType")]

\* the blocks of the widget body, in order: each condition && <element>
WidgetContainer(widget, measurement, query) ==
    (IF query.isLoading THEN <<[el |-> "widget-loading"]>> ELSE <<>>)
    \o (IF Truthy(query.error) /\ ~query.isLoading
        THEN <<[el |-> "widget-error", text |-> "Failed to load data",
                subject |-> query.error]>>
        ELSE <<>>)
    \o (IF ~query.isLoading /\ ~Truthy(query.error) /\ Truthy(query.data)
           /\ Truthy(measurement)
        THEN <<WidgetRenderer(widget, query.data, measurement)>>
        ELSE <<>>)
    \o (IF ~query.isLoading /\ ~Truthy(query.error) /\ ~Truthy(query.data)
        THEN <<[el |-> "widget-no-data"]>>
        ELSE <<>>)

DashboardGridFailFast(widgets, resolved, queries) ==
    [n \in 1..Len(widgets) |->
        [key |-> widgets[n].id,
         body |-> IF \E m \in 1..Len(widgets) : Truthy(queries[m].error)
                  THEN <<[el |-> "widget-error", text |-> "Failed to load data",
                          subject |-> Undefined]>>
                  ELSE WidgetContainer(widgets[n],
                          IF Truthy(WGet(widgets[n], "deviceType")) THEN resolved[n]
                          ELSE Undefined,
                          queries[n])]]

\* widgets.map: one grid item per widget, keyed by widget.id; resolved[n] is
\* what getMeasurement returns for widget n, queries[n] what useWidgetData
\* returns for it
DashboardGrid(widgets, resolved, queries) ==
    [n \in 1..Len(widgets) |->
        [key |-> widgets[n].id,
         body |-> WidgetContainer(widgets[n],
                     IF Truthy(WGet(widgets[n], "deviceType")) THEN resolved[n]
                     ELSE Undefined,
                     queries[n])]]

\* legacy widgets on the grid; "map" is a type the renderer does not know
GridWidgets(id) ==
    { [id |-> id, deviceType |-> dt, measurementId |-> Str("temperature"),
       widgetType |-> Str(type)] :
        dt \in {Str("lht65"), Undefined}, type \in {"current-value", "status", "map"} }

\* what useWidgetData returns: loading, a failed request, no frames, an error
\* result, a value
QueryResults ==
    { [isLoading |-> TRUE, error |-> Null, data |-> Undefined],
      [isLoading |-> FALSE, error |-> Str("Network Error"), data |-> Undefined],
      [isLoading |-> FALSE, error |-> Null, data |-> Null] }
    \cup { [isLoading |-> FALSE, error |-> Null, data |-> d] :
             d \in { [widgetId |-> "w1", currentValue |-> Num(2150), unit |-> Str("degC")],
                     [widgetId |-> "w1", error |-> Str("No uplink frames found")] } }

\* what getMeasurement returns
ResolvedMeasurements == {Undefined, [id |-> "temperature", name |-> "Temperature"]}

GridInputs ==
    UNION { [fn : {"DashboardGrid"},
             widgets : { ws \in [1..k -> UNION { GridWidgets(id) : id \in 1..MaxWidgets }] :
                           \A n \in 1..k : ws[n].id = n },
             resolved : [1..k -> ResolvedMeasurements],
             queries : [1..k -> QueryResults]] : k \in 1..MaxWidgets }

InitRender ==
    /\ args \in [fn : {"CompositeDeviceWidget"}, widget : CompositeWidgets,
                  deviceType : {DeviceType}, template : Templates,
                  measurementData : MeasurementDataLists]
           \cup { a \in GridInputs :
                    Len(a.resolved) = Len(a.widgets) /\ Len(a.queries) = Len(a.widgets) }
    /\ ret = NotCalled
    /\ StoreIdle

CallCompositeDeviceWidget ==
    /\ args.fn = "CompositeDeviceWidget"
    /\ ret = NotCalled
    /\ ret' = Arr(CompositeDeviceWidget(args.widget, args.deviceType, args.template,
                                        args.measurementData))
    /\ UNCHANGED <<args, storeVars>>

CallDashboardGrid ==
    /\ args.fn = "DashboardGrid"
    /\ ret = NotCalled
    /\ ret' = Arr(DashboardGrid(args.widgets, args.resolved, args.queries))
    /\ UNCHANGED <<args, storeVars>>

NextRender ==
    \/ CallCompositeDeviceWidget
    \/ CallDashboardGrid

SpecRender == InitRender /\ [][NextRender]_vars

---------------------------------------------------------------------------
(* Backend: POST /api/auth/verify-token *)

\* jwt.verify(token, secret, {algorithms: ['HS256']}): the decoded payload, or
\* the error it throws.  A token that is no string, has another algorithm or
\* a wrong signature gives JsonWebTokenError; then nbf and exp are checked
jwtVerify(token) ==
    IF token.t # "jwt" THEN [threw |-> "JsonWebTokenError"]
    ELSE IF token.alg # "HS256" \/ ~token.signed THEN [threw |-> "JsonWebTokenError"]
    ELSE IF token.exp = "past" THEN [threw |-> "TokenExpiredError"]
    ELSE [threw |-> "nothing", payload |-> token.payload]

Status401(error, message) ==
    [status |-> 401, error |-> error, message |-> message, valid |-> Bool(FALSE)]

verifyTokenNoExpiry(body, found, dbFails) ==
    IF ~Truthy(Get(body, "token"))
    THEN <<[status |-> 400, error |-> "ValidationError",
            message |-> "Token is required", valid |-> Undefined]>>
    ELSE IF body.fields.token.t = "jwt" /\ body.fields.token.alg = "HS256"
            /\ body.fields.token.signed
    THEN <<[status |-> 200, error |-> Undefined, message |-> Undefined,
            valid |-> Bool(TRUE)]>>
    ELSE <<Status401("InvalidToken", "Invalid token")>>

\* the handler: the responses it sends, in order.  found is what
\* serverRepository.findById returns, dbFails whether it throws instead
verifyToken(body, found, dbFails) ==
    IF ~Truthy(Get(body, "token"))
    THEN <<[status |-> 400, error |-> "ValidationError",
            message |-> "Token is required", valid |-> Undefined]>>
    ELSE LET decoded == jwtVerify(Get(body, "token"))
         IN IF decoded.threw = "TokenExpiredError"
            THEN <<Status401("TokenExpired", "Session has expired")>>
            ELSE IF decoded.threw = "JsonWebTokenError"
            THEN <<Status401("InvalidToken", "Invalid token")>>
            ELSE LET serverId == Get(decoded.payload, "server_id")
                 IN IF ~Truthy(serverId) \/ serverId.t # "number"
                    THEN <<Status401("InvalidToken",
                                     "Token does not contain valid server context")>>
                    ELSE IF dbFails
                    THEN <<[status |-> 500, error |-> "InternalError",
                            message |-> "Failed to verify token", valid |-> Undefined]>>
                    ELSE IF ~Truthy(found)
                    THEN <<[status |-> 404, error |-> "ServerNotFound",
                            message |-> "The server associated with this session no longer exists",
                            valid |-> Bool(FALSE)]>>
                    ELSE <<[status |-> 200, error |-> Undefined, message |-> Undefined,
                            valid |-> Bool(TRUE), serverId |-> serverId,
                            serverName |-> found.fields.name]>>

\* server_id claims a token can carry: none, null, 0, 1, 2 (numbers are held
\* in hundredths), the string "1"
ServerIdClaims ==
    {Undefined, Null, Num(0), Num(100), Num(200), Str("1")}

Payloads ==
    { Obj([sub |-> Str("session")]) } \cup
    { Obj([sub |-> Str("session"), server_id |-> sid]) :
        sid \in ServerIdClaims \ {Undefined} }

Tokens ==
    [t : {"jwt"}, alg : {"HS256", "RS256", "none"}, signed : BOOLEAN,
     exp : {"past", "future", "none"}, payload : Payloads]

\* request bodies: no token, an empty token, a token that is no string, a
\* token
Bodies ==
    {Obj([other |-> Str("x")]), Obj([token |-> Str("")]),
     Obj([token |-> Num(12300)])}
    \cup { Obj([token |-> tok]) : tok \in Tokens }

\* what findById returns
FoundServers == {Undefined, Obj([name |-> Str("main"), host |-> Str("10.0.0.5")])}

InitAuth ==
    /\ args \in [fn : {"verifyToken"}, body : Bodies, found : FoundServers,
                  dbFails : BOOLEAN]
    /\ ret = NotCalled
    /\ StoreIdle

CallVerifyToken ==
    /\ args.fn = "verifyToken"
    /\ ret = NotCalled
    /\ ret' = Arr(verifyToken(args.body, args.found, args.dbFails))
    /\ UNCHANGED <<args, storeVars>>

NextAuth == CallVerifyToken

SpecAuth == InitAuth /\ [][NextAuth]_vars

---------------------------------------------------------------------------
(* Backend: proxy routes to the LoRaDB API *)

\* getAuthHeader: the Authorization header of the request, when it has one
getAuthHeader(req) ==
    IF Truthy(req.authorization) THEN [Authorization |-> req.authorization]
    ELSE [Authorization |-> Undefined]

\* handleLoraDbError: the response sent for a failed upstream call
handleLoraDbError(error) ==
    IF error.axios /\ error.response # Undefined
    THEN <<[status |-> error.response.status, body |-> error.response.data]>>
    ELSE IF error.axios /\ error.code = "ECONNREFUSED"
    THEN <<[status |-> 503,
            body |-> Obj([error |-> Str("ServiceUnavailable"),
                          message |-> Str("LoRaDB API is not available")])]>>
    ELSE IF error.axios /\ error.code = "ETIMEDOUT"
    THEN <<[status |-> 504,
            body |-> Obj([error |-> Str("Timeout"),
                          message |-> Str("Request to LoRaDB API timed out")])]>>
    ELSE <<[status |-> 500,
            body |-> Obj([error |-> Str("InternalError"),
                          message |-> Str("An unexpected error occurred")])]>>

\* the upstream request a route makes
upstreamRequest(req) ==
    IF req.route = "health"
    THEN [method |-> "GET", path |-> "/health", param |-> <<>>,
          headers |-> [Authorization |-> Undefined], data |-> Undefined]
    ELSE IF req.route = "query"
    THEN [method |-> "POST", path |-> "/query", param |-> <<>>,
          headers |-> getAuthHeader(req), data |-> req.body]
    ELSE IF req.route = "devices"
    THEN [method |-> "GET", path |-> "/devices", param |-> <<>>,
          headers |-> getAuthHeader(req), data |-> Undefined]
    ELSE [method |-> "GET", path |-> "/devices/", param |-> req.dev_eui,
          headers |-> getAuthHeader(req), data |-> Undefined]

\* a proxy route: the upstream requests it makes and the responses it sends.
\* outcome is what the upstream call does: resolve, or reject with an error
proxyRoute(req, outcome) ==
    [forwarded |-> <<upstreamRequest(req)>>,
     sent |-> IF outcome.resolved
              THEN <<[status |-> 200, body |-> outcome.data]>>
              ELSE handleLoraDbError(outcome.error)]

\* a string of n times the character c
Fill(n, c) == [i \in 1..n |-> c]

\* values of the :dev_eui path parameter, as sequences of characters
DevEuis ==
    { Fill(16, "0"), [Fill(16, "A") EXCEPT ![16] = "f"], Fill(15, "0"),
      Fill(17, "0"), [Fill(16, "0") EXCEPT ![8] = "g"],
      <<".", ".", "/", "h", "e", "a", "l", "t", "h">> }

UpstreamBodies == {Obj([devices |-> Str("none")]), Str("plain text")}

\* error responses of the upstream API
UpstreamErrorResponses == [status : {401, 404, 500}, data : UpstreamBodies]

\* error codes of a request that got no response: connection refused,
\* connect timed out, and the 30000 ms timeout of the axios client, which axios
\* reports as ECONNABORTED, and an unknown host
NoResponseCodes == {"ECONNREFUSED", "ETIMEDOUT", "ECONNABORTED", "ENOTFOUND"}

UpstreamOutcomes ==
    [resolved : {TRUE}, data : UpstreamBodies]
    \cup { [resolved |-> FALSE,
            error |-> [axios |-> TRUE, response |-> r, code |-> "ERR_BAD_RESPONSE"]] :
            r \in UpstreamErrorResponses }
    \cup { [resolved |-> FALSE,
            error |-> [axios |-> TRUE, response |-> Undefined, code |-> c]] :
            c \in NoResponseCodes }
    \cup { [resolved |-> FALSE,
            error |-> [axios |-> FALSE, response |-> Undefined, code |-> "TypeError"]] }

ProxyRequests ==
    [route : {"health", "query", "devices"}, dev_eui : {<<>>},
     authorization : {Undefined, Str("Bearer t")}, body : {Obj([query |-> Str("SELECT")])}]
    \cup [route : {"device"}, dev_eui : DevEuis,
          authorization : {Undefined, Str("Bearer t")}, body : {Undefined}]

InitProxy ==
    /\ args \in [fn : {"proxyRoute"}, req : ProxyRequests, outcome : UpstreamOutcomes]
    /\ ret = NotCalled
    /\ StoreIdle

CallProxyRoute ==
    /\ args.fn = "proxyRoute"
    /\ ret = NotCalled
    /\ ret' = proxyRoute(args.req, args.outcome)
    /\ UNCHANGED <<args, storeVars>>

NextProxy == CallProxyRoute

SpecProxy == InitProxy /\ [][NextProxy]_vars

---------------------------------------------------------------------------
(* TimeSeriesWidget: the Y axis of the chart *)

\* TimeSeriesWidget down to the yAxis of its chart option: the error and
\* no-data returns, then the resolution of the two bounds
TimeSeriesWidget(data, config, widget) ==
    IF Truthy(Get(data, "error"))
    THEN [el |-> "widget-error"]
    ELSE IF ~Truthy(Get(data, "timeSeries")) \/ Len(Get(data, "timeSeries").items) = 0
    THEN [el |-> "widget-no-data"]
    ELSE LET converted == getConvertedYAxisRange(config.yAxisMin, config.yAxisMax,
                                                 widget.conversion)
             convert == /\ widget.customYAxisMin = Undefined
                        /\ widget.conversion # Undefined
                        /\ widget.conversion.enabled
             yAxisMin == IF widget.customYAxisMin # Undefined THEN widget.customYAxisMin
                         ELSE IF convert THEN converted.min
                         ELSE config.yAxisMin
             yAxisMax == IF widget.customYAxisMax # Undefined THEN widget.customYAxisMax
                         ELSE IF convert THEN converted.max
                         ELSE config.yAxisMax
         IN [el |-> "chart", yAxis |-> [min |-> yAxisMin, max |-> yAxisMax]]

\* TimeSeriesWidgetConfig: the default bounds of the catalog, each optional
AxisConfigs == [yAxisMin : {Undefined, Num(-1000), Num(0)}, yAxisMax : {Undefined, Num(4000)}]

\* WidgetInstance: custom bounds and conversion settings
AxisWidgets ==
    [customYAxisMin : {Undefined, Num(0), Num(500)},
     customYAxisMax : {Undefined, Num(10000)},
     conversion : Conversions \cup {[enabled |-> TRUE, convertTo |-> Undefined]}]

\* WidgetData: an error, no series, an empty series, a series
AxisData ==
    { Obj([error |-> Str("No uplink frames found")]),
      Obj([unit |-> Str("degC")]),
      Obj([timeSeries |-> Arr(<<>>)]),
      Obj([timeSeries |-> Arr(<<[timestamp |-> TsA, value |-> Num(2150)]>>)]) }

InitAxis ==
    /\ args \in [fn : {"TimeSeriesWidget"}, data : AxisData, config : AxisConfigs,
                  widget : AxisWidgets]
    /\ ret = NotCalled
    /\ StoreIdle

CallTimeSeriesWidget ==
    /\ args.fn = "TimeSeriesWidget"
    /\ ret = NotCalled
    /\ ret' = TimeSeriesWidget(args.data, args.config, args.widget)
    /\ UNCHANGED <<args, storeVars>>

NextAxis == CallTimeSeriesWidget

SpecAxis == InitAxis /\ [][NextAxis]_vars

---------------------------------------------------------------------------
(* The layout store with a layout left in localStorage *)

\* the layout an earlier version saved to localStorage
StoredLayout ==
    [getDefaultLayout EXCEPT !.widgets = <<ImportedWidget>>,
                             !.layouts = [lg |-> <<ImportedEntry>>]]

\* the item of localStorage: a layout with a widget, one without widgets,
\* one of another version, a string that is no JSON
LocalStorageItems ==
    { StoredLayout, getDefaultLayout,
      [StoredLayout EXCEPT !.version = Str("0.9")], Str("{") }

\* the remote dashboard at mount: empty, or holding a widget already
MigrationRemotes ==
    RemoteInit \cup
    { [r EXCEPT !.widgets = <<TemplateWidget(FreshId)>>,
                !.layouts = [lg |-> <<[i |-> FreshId, x |-> 0, y |-> 0, w |-> 4, h |-> 3]>>]] :
        r \in RemoteInit }

TimeRanges == {Str("24h"), Str("7d")}

InitMigration ==
    /\ args = Undefined
    /\ ret = NotCalled
    /\ localLayout = getDefaultLayout
    /\ dashboardData = Undefined
    /\ remote \in MigrationRemotes
    /\ fetching = TRUE
    /\ timer = TRUE
    /\ inflight = <<>>
    /\ nextId = 1
    /\ writesSinceEdit = 0
    /\ localStorage \in LocalStorageItems
    /\ migrationAttempted = FALSE
    /\ migrating = <<>>
    /\ migrateCalls = 0

\* setTimeRange
SetTimeRange ==
    /\ \E timeRange \in TimeRanges :
          /\ timeRange # localLayout.timeRange
          /\ Edit([localLayout EXCEPT !.timeRange = timeRange])
    /\ UNCHANGED <<migrationVars, args, ret, dashboardData, remote, fetching, inflight,
                   nextId>>

\* migrateDashboard resolved: localStorage is cleared, the dashboard query is
\* invalidated, migrationAttempted is set
MigrationCompletes ==
    /\ \E n \in 1..Len(migrating) :
          /\ migrating[n] = "ok"
          /\ migrating' = RemoveAt(migrating, n)
    /\ localStorage' = Null
    /\ fetching' = TRUE
    /\ migrationAttempted' = TRUE
    /\ timer' = TRUE
    /\ UNCHANGED <<args, ret, localLayout, dashboardData, remote, inflight, nextId,
                   writesSinceEdit, migrateCalls>>

MigrationFailsClearing ==
    /\ \E n \in 1..Len(migrating) :
          /\ migrating[n] = "error"
          /\ migrating' = RemoveAt(migrating, n)
    /\ localStorage' = Null
    /\ migrationAttempted' = TRUE
    /\ timer' = TRUE
    /\ UNCHANGED <<args, ret, localLayout, dashboardData, remote, fetching, inflight,
                   nextId, writesSinceEdit, migrateCalls>>

\* migrateDashboard rejected: the error is logged, migrationAttempted is set
MigrationFails ==
    /\ \E n \in 1..Len(migrating) :
          /\ migrating[n] = "error"
          /\ migrating' = RemoveAt(migrating, n)
    /\ migrationAttempted' = TRUE
    /\ timer' = TRUE
    /\ UNCHANGED <<args, ret, localLayout, dashboardData, remote, fetching, inflight,
                   nextId, writesSinceEdit, localStorage, migrateCalls>>

NextMigration ==
    \/ AddWidget
    \/ SetTimeRange
    \/ QueryResolves
    \/ QueryFails
    \/ TimerFires
    \/ SaveCompletes
    \/ SaveFails
    \/ MigrationCompletes
    \/ MigrationFails

SpecMigration == InitMigration /\ [][NextMigration]_vars

---------------------------------------------------------------------------
(* Claims on the layout store *)

WidgetIds == { localLayout.widgets[n].id : n \in 1..Len(localLayout.widgets) }

EntryIds == { localLayout.layouts.lg[n].i : n \in 1..Len(localLayout.layouts.lg) }

\* C10: after any sequence of store operations from the default layout, every
\* widget id has exactly one lg position entry and every lg position entry
\* belongs to exactly one widget.
C10_WidgetsAndLayoutInSync ==
    /\ \A id \in WidgetIds :
          Cardinality({ n \in 1..Len(localLayout.layouts.lg) :
                          localLayout.layouts.lg[n].i = id }) = 1
    /\ \A id \in EntryIds :
          Cardinality({ n \in 1..Len(localLayout.widgets) :
                          localLayout.widgets[n].id = id }) = 1

---------------------------------------------------------------------------
(* Claims on the layout operations *)

DeleteReturned == args.fn = "deleteWidget" /\ ret # NotCalled

\* the position lists a layout holds, one per breakpoint
Breakpoints(layout) == DOMAIN layout.layouts

\* C11: after deleteWidget(id) no widget with that id remains, no position
\* entry keyed by that id remains in any breakpoint list of the layout, and
\* all other widgets and position entries are unchanged.
C11_DeleteRemovesWidgetAndEntries ==
    DeleteReturned =>
        /\ \A n \in DOMAIN ret.widgets : ret.widgets[n].id # args.id
        /\ Breakpoints(ret) = Breakpoints(args.prev)
        /\ \A bp \in Breakpoints(ret) :
              /\ \A n \in DOMAIN ret.layouts[bp] : ret.layouts[bp][n].i # args.id
              /\ ret.layouts[bp] = filterSeq(args.prev.layouts[bp], "i", args.id)
        /\ ret.widgets = filterSeq(args.prev.widgets, "id", args.id)

---------------------------------------------------------------------------
(* Claims on the debounced save *)

\* C12: a burst of edits results in exactly one persisted write: at most one
\* updateDashboard call is issued between one user edit and the next.
C12_OneWritePerBurst == writesSinceEdit <= 1

\* an updateDashboard call is issued and the remote store accepts it
WriteAccepted ==
    /\ Len(inflight') = Len(inflight) + 1
    /\ inflight'[Len(inflight')] = "ok"

\* the stored document holds the widgets, positions and global settings of
\* the layout
Holds(doc, layout) ==
    /\ doc.widgets = layout.widgets /\ doc.layouts = layout.layouts
    /\ doc.timeRange = layout.timeRange /\ doc.autoRefresh = layout.autoRefresh
    /\ doc.refreshInterval = layout.refreshInterval

\* C13: every write carries the full in-memory layout as it is when the
\* debounce timer fires, also while earlier writes are still in flight, and
\* a write in flight is never cancelled: only its own response removes it.
C13_WriteCarriesCurrentLayout ==
    [][/\ WriteAccepted => Holds(remote', localLayout) /\ localLayout' = localLayout
       /\ Len(inflight') < Len(inflight) =>
             /\ Len(inflight') = Len(inflight) - 1
             /\ UNCHANGED <<localLayout, remote>>
       /\ localLayout' # localLayout => inflight' = inflight]_vars

\* a second write was issued while the first is still in flight, and the
\* remote store holds the edited layout it carried
C13_Witness ==
    /\ Len(inflight) = 2
    /\ inflight[2] = "ok"
    /\ localLayout.widgets # <<>>
    /\ Holds(remote, localLayout)

---------------------------------------------------------------------------
(* Claims on the widget instances *)

OpReturned == args.fn \in {"addWidget", "updateWidget", "deleteWidget"} /\ ret # NotCalled

\* the legacy fields, the template field of a widget are populated
LegacyPopulated(w) ==
    Truthy(WGet(w, "measurementId")) /\ Truthy(WGet(w, "widgetType"))

TemplatePopulated(w) == Truthy(WGet(w, "templateId"))

\* C14: each stored widget has exactly one of {measurementId with widgetType,
\* templateId} populated, for widgets the modal created and after any edit
\* applied through updateWidget, a switch of mode included.
C14_ExactlyOneModePopulated ==
    OpReturned =>
        \A n \in DOMAIN ret.widgets :
            LegacyPopulated(ret.widgets[n]) # TemplatePopulated(ret.widgets[n])

---------------------------------------------------------------------------
(* Claims on addWidget *)

AddReturned == args.fn = "addWidget" /\ ret # NotCalled

PrevLg == args.prev.layouts.lg

NewEntry == ret.layouts.lg[Len(ret.layouts.lg)]

\* C15: addWidget appends the widget and exactly one lg entry for it at x = 0
\* and y = the maximum of y + h over the existing lg entries (0 without any),
\* below every occupied row and overlapping no existing entry; the existing
\* widgets and position entries are unchanged.
C15_AddWidgetStacksBelow ==
    AddReturned =>
        /\ ret.widgets = Append(args.prev.widgets, args.widget)
        /\ Len(ret.layouts.lg) = Len(PrevLg) + 1
        /\ SubSeq(ret.layouts.lg, 1, Len(PrevLg)) = PrevLg
        /\ NewEntry.i = args.widget.id
        /\ NewEntry.x = 0
        /\ PrevLg = <<>> => NewEntry.y = 0
        /\ PrevLg # <<>> =>
              \E n \in DOMAIN PrevLg : NewEntry.y = PrevLg[n].y + PrevLg[n].h
        /\ \A n \in DOMAIN PrevLg :
              /\ NewEntry.y >= PrevLg[n].y + PrevLg[n].h
              /\ ~collides(NewEntry, PrevLg[n])
        /\ \A bp \in Breakpoints(args.prev) \ {"lg"} :
              ret.layouts[bp] = args.prev.layouts[bp]
        /\ Breakpoints(ret) = Breakpoints(args.prev)

\* a widget was added below two existing entries whose bottoms differ
C15_Witness ==
    /\ AddReturned
    /\ Len(PrevLg) = 2
    /\ PrevLg[1].y + PrevLg[1].h # PrevLg[2].y + PrevLg[2].h
    /\ NewEntry.y > 0

---------------------------------------------------------------------------
(* Claims on the composite widget *)

RenderReturned == args.fn = "CompositeDeviceWidget" /\ ret # NotCalled

Sections == args.template.sections

\* the measurement ids a section names, in order
IdsOf(section) ==
    IF section.measurementId.t = "array" THEN section.measurementId.items
    ELSE <<section.measurementId.s>>

\* the override of the measurement has hidden set
Hidden(m) == Get(overrideOf(args.widget, m), "hidden") = Bool(TRUE)

HasData(m) == \E n \in DOMAIN args.measurementData :
                 args.measurementData[n].measurementId = m

\* what the render holds in section n for the k-th measurement of the section
RenderedAt(n, k) ==
    IF ret.items[n] = Null THEN Null
    ELSE IF "t" \in DOMAIN ret.items[n] THEN ret.items[n].items[k]
    ELSE ret.items[n]

\* the widget without the override of measurement m
WithoutOverride(widget, m) ==
    IF widget.sectionOverrides = Undefined THEN widget
    ELSE [widget EXCEPT !.sectionOverrides =
            Obj([key \in DOMAIN widget.sectionOverrides.fields \ {m} |->
                    widget.sectionOverrides.fields[key]])]

\* C16: a measurement hidden by the widget's sectionOverrides is omitted from
\* the render, and every section that does not name it is rendered as it
\* would be without that override.
C16_HiddenMeasurementOmitted ==
    RenderReturned =>
        \A m \in MeasurementIdSet : Hidden(m) =>
            \A n \in DOMAIN Sections :
                /\ \A k \in DOMAIN IdsOf(Sections[n]) :
                      IdsOf(Sections[n])[k] = m => RenderedAt(n, k) = Null
                /\ (\A k \in DOMAIN IdsOf(Sections[n]) : IdsOf(Sections[n])[k] # m) =>
                      ret.items[n] =
                          renderSection(WithoutOverride(args.widget, m), args.deviceType,
                                        args.measurementData, Sections[n])

\* C17: in a section that names several measurement ids, a measurement that
\* has data is omitted exactly when its own override has hidden set, whatever
\* the overrides of the other measurements of the section.
C17_EachMeasurementResolvedByOwnOverride ==
    RenderReturned =>
        \A n \in DOMAIN Sections : Sections[n].measurementId.t = "array" =>
            \A k \in DOMAIN IdsOf(Sections[n]) :
                HasData(IdsOf(Sections[n])[k]) =>
                    (RenderedAt(n, k) = Null <=> Hidden(IdsOf(Sections[n])[k]))

\* the render holds a section element with visualizations for the k-th
\* measurement of section n
DrawnAt(n, k) ==
    /\ RenderedAt(n, k) # Null
    /\ "label" \in DOMAIN RenderedAt(n, k)
    /\ RenderedAt(n, k).key = IdsOf(Sections[n])[k]

\* the display types in force for measurement m of a section
EffectiveTypes(section, m) ==
    IF Get(overrideOf(args.widget, m), "displayTypes") # Undefined
    THEN Get(overrideOf(args.widget, m), "displayTypes").items
    ELSE section.displayTypes

\* the i-th child stands for display type type: the visualization of that
\* type, or an error marker in its place
StandsFor(child, m, type) ==
    IF "key" \in DOMAIN child THEN child.key = <<m, type>>
    ELSE child.el = "widget-error" /\ child.subject = m

\* C18: for every rendered measurement of a section the display types
\* rendered are the override's displayTypes when the override of that
\* measurement defines them, else the section's default displayTypes, in
\* list order.
C18_EffectiveDisplayTypes ==
    RenderReturned =>
        \A n \in DOMAIN Sections : \A k \in DOMAIN IdsOf(Sections[n]) :
            DrawnAt(n, k) =>
                LET m == IdsOf(Sections[n])[k]
                    types == EffectiveTypes(Sections[n], m)
                    children == RenderedAt(n, k).children
                IN /\ Len(children) = Len(types)
                   /\ \A i \in DOMAIN children : StandsFor(children[i], m, types[i])

\* temperature is drawn with the two display types of its override, not with
\* the defaults of its section, while humidity is drawn with the defaults
C18_Witness ==
    /\ RenderReturned
    /\ Sections = <<SecTemp, SecHum>>
    /\ DrawnAt(1, 1) /\ DrawnAt(2, 1)
    /\ Get(overrideOf(args.widget, "temperature"), "displayTypes") = Arr(<<"status", "gauge">>)
    /\ overrideOf(args.widget, "humidity") = Undefined
    /\ RenderedAt(1, 1).children[1].component = "StatusWidget"
    /\ RenderedAt(1, 1).children[2].component = "GaugeWidget"
    /\ RenderedAt(2, 1).children[1].component = "GaugeWidget"

---------------------------------------------------------------------------
(* Claims on failures *)

GridReturned == args.fn = "DashboardGrid" /\ ret # NotCalled

\* the entries of measurementData that belong to measurement m
OwnData(m) ==
    LET own(entry) == entry.measurementId = m
    IN SelectSeq(args.measurementData, own)

\* what section n holds for its k-th measurement when the data of all other
\* measurements is taken away
RenderedAloneAt(n, k) ==
    LET alone == renderSection(args.widget, args.deviceType,
                               OwnData(IdsOf(Sections[n])[k]), Sections[n])
    IN IF alone = Null THEN Null
       ELSE IF "t" \in DOMAIN alone THEN alone.items[k]
       ELSE alone

Defined(m) == \E n \in DOMAIN args.deviceType.measurements :
                 args.deviceType.measurements[n].id = m

\* C19: an unknown widget or display type gives an inline error marker in
\* place of that one visualization, and what is rendered for a widget (or a
\* measurement of a composite widget) does not depend on the data, errors or
\* types of the other widgets (or measurements).
C19_FailuresAreLocal ==
    /\ RenderReturned =>
          \A n \in DOMAIN Sections : \A k \in DOMAIN IdsOf(Sections[n]) :
              /\ RenderedAt(n, k) = RenderedAloneAt(n, k)
              /\ DrawnAt(n, k) /\ Defined(IdsOf(Sections[n])[k]) =>
                    LET m == IdsOf(Sections[n])[k]
                        types == EffectiveTypes(Sections[n], m)
                        children == RenderedAt(n, k).children
                    IN \A i \in DOMAIN types :
                          IF types[i] \in WidgetTypes
                          THEN /\ children[i].el = "composite-widget-item"
                               /\ children[i].component = ComponentOf(types[i])
                               /\ children[i].data = OwnData(m)[1].data
                          ELSE /\ children[i].el = "widget-error"
                               /\ children[i].subject = types[i]
    /\ GridReturned =>
          \A n \in DOMAIN args.widgets :
              /\ ret.items[n] =
                    DashboardGrid(<<args.widgets[n]>>, <<args.resolved[n]>>,
                                  <<args.queries[n]>>)[1]
              /\ ret.items[n].key = args.widgets[n].id
              /\ ( /\ args.widgets[n].widgetType = Str("map")
                    /\ args.widgets[n].deviceType # Undefined
                    /\ args.resolved[n] # Undefined
                    /\ Truthy(args.queries[n].data) ) =>
                    ret.items[n].body =
                        <<[el |-> "widget-error", text |-> "Unknown widget type",
                           subject |-> Str("map")]>>

\* two widgets on the grid: the first has an unknown type and shows the error
\* marker, the second one's request failed, each with its own body
C19_Witness ==
    /\ GridReturned
    /\ Len(args.widgets) = 2
    /\ args.widgets[1].widgetType = Str("map")
    /\ ret.items[1].body = <<[el |-> "widget-error", text |-> "Unknown widget type",
                              subject |-> Str("map")]>>
    /\ args.queries[2].error = Str("Network Error")
    /\ ret.items[2].body = <<[el |-> "widget-error", text |-> "Failed to load data",
                              subject |-> Str("Network Error")]>>

---------------------------------------------------------------------------
(* Claims on the verify-token route *)

VerifyReturned == args.fn = "verifyToken" /\ ret # NotCalled

Token == Get(args.body, "token")

\* the token is a JWT whose HS256 signature verifies
Verifies == Token.t = "jwt" /\ Token.alg = "HS256" /\ Token.signed

Expired == Verifies /\ Token.exp = "past"

\* the server_id claim of a verified token
ServerIdClaim == IF Verifies THEN Get(Token.payload, "server_id") ELSE Undefined

Answer == ret.items[1]

\* C20: POST /api/auth/verify-token sends exactly one response per request;
\* it answers valid: true only when the token's HS256 signature verifies, the
\* token is not expired, its server_id claim is a number and the server with
\* that id is found; no token gives 400, an expired token 401 TokenExpired,
\* any other invalid token and a missing or non-numeric server_id 401
\* InvalidToken, and a token whose server is gone 404 ServerNotFound with
\* valid: false
C20_VerifyTokenAnswers ==
    VerifyReturned =>
        /\ Len(ret.items) = 1
        /\ Answer.valid = Bool(TRUE) =>
              /\ Verifies /\ ~Expired
              /\ ServerIdClaim.t = "number"
              /\ args.found # Undefined
        /\ Token \in {Undefined, Str("")} => Answer.status = 400
        /\ Expired =>
              Answer.status = 401 /\ Answer.error = "TokenExpired"
        /\ Truthy(Token) /\ ~Verifies =>
              Answer.status = 401 /\ Answer.error = "InvalidToken"
        /\ Verifies /\ ~Expired /\ ServerIdClaim.t # "number" =>
              Answer.status = 401 /\ Answer.error = "InvalidToken"
        /\ ( /\ Verifies /\ ~Expired /\ ServerIdClaim.t = "number"
             /\ Truthy(ServerIdClaim)
             /\ args.found = Undefined /\ ~args.dbFails ) =>
              /\ Answer.status = 404 /\ Answer.error = "ServerNotFound"
              /\ Answer.valid = Bool(FALSE)

\* a verified, unexpired token of an existing server was answered valid: true
C20_Witness ==
    /\ VerifyReturned
    /\ Verifies /\ ~Expired /\ args.found # Undefined
    /\ Answer.status = 200 /\ Answer.valid = Bool(TRUE)

---------------------------------------------------------------------------
(* Claims on the proxy routes *)

ProxyReturned == args.fn = "proxyRoute" /\ ret # NotCalled

HexDigits ==
    {"0", "1", "2", "3", "4", "5", "6", "7", "8", "9",
     "a", "b", "c", "d", "e", "f", "A", "B", "C", "D", "E", "F"}

\* exactly 16 hexadecimal characters
WellFormedDevEui(e) == Len(e) = 16 /\ \A i \in 1..Len(e) : e[i] \in HexDigits

\* C21: GET /api/devices/:dev_eui answers a dev_eui that is not exactly 16
\* hexadecimal characters with 400 ValidationError and forwards no request to
\* the upstream API
C21_DevEuiValidatedBeforeForwarding ==
    ( /\ ProxyReturned
      /\ args.req.route = "device"
      /\ ~WellFormedDevEui(args.req.dev_eui) ) =>
        /\ ret.forwarded = <<>>
        /\ Len(ret.sent) = 1
        /\ ret.sent[1].status = 400
        /\ Get(ret.sent[1].body, "error") = Str("ValidationError")

Failure == args.outcome.error

TimedOut == Failure.axios /\ Failure.code \in {"ETIMEDOUT", "ECONNABORTED"}

\* C22: a proxied request gets exactly one response; on success it is the
\* upstream body; a failed one forwards the status and body of the upstream
\* error response, answers 503 ServiceUnavailable to a refused connection,
\* 504 Timeout to an upstream timeout and 500 InternalError to any other
\* failure
C22_ProxyErrorMapping ==
    ProxyReturned =>
        /\ Len(ret.sent) = 1
        /\ args.outcome.resolved => ret.sent[1].body = args.outcome.data
        /\ ~args.outcome.resolved =>
              IF Failure.response # Undefined
              THEN /\ ret.sent[1].status = Failure.response.status
                   /\ ret.sent[1].body = Failure.response.data
              ELSE IF Failure.axios /\ Failure.code = "ECONNREFUSED"
              THEN /\ ret.sent[1].status = 503
                   /\ Get(ret.sent[1].body, "error") = Str("ServiceUnavailable")
              ELSE IF TimedOut
              THEN /\ ret.sent[1].status = 504
                   /\ Get(ret.sent[1].body, "error") = Str("Timeout")
              ELSE /\ ret.sent[1].status = 500
                   /\ Get(ret.sent[1].body, "error") = Str("InternalError")

---------------------------------------------------------------------------
(* Claims on the Y axis *)

ChartDrawn == args.fn = "TimeSeriesWidget" /\ ret # NotCalled /\ ret.el = "chart"

ConversionEnabled ==
    args.widget.conversion # Undefined /\ args.widget.conversion.enabled

ConvertedDefaults ==
    getConvertedYAxisRange(args.config.yAxisMin, args.config.yAxisMax,
                           args.widget.conversion)

\* C25: each bound of the Y axis is resolved on its own: the custom value of
\* the widget when defined, else the converted default when conversion is
\* enabled, else the default
C25_AxisBoundsResolvedIndependently ==
    ChartDrawn =>
        /\ ret.yAxis.min =
              IF args.widget.customYAxisMin # Undefined THEN args.widget.customYAxisMin
              ELSE IF ConversionEnabled THEN ConvertedDefaults.min
              ELSE args.config.yAxisMin
        /\ ret.yAxis.max =
              IF args.widget.customYAxisMax # Undefined THEN args.widget.customYAxisMax
              ELSE IF ConversionEnabled THEN ConvertedDefaults.max
              ELSE args.config.yAxisMax

---------------------------------------------------------------------------
(* Claims on the status under conversion *)

\* the same widget with its display conversion switched off
Unconverted == [args.widget EXCEPT !.conversion = Undefined]

\* C29: the status processWidgetData computes for given frames and conditions
\* is the same with Fahrenheit or Kelvin conversion as with conversion off
C29_StatusIndependentOfConversion ==
    ( /\ args.fn = "processWidgetData"
      /\ ret # NotCalled
      /\ ret # Null
      /\ "status" \in DOMAIN ret ) =>
        ret.status = processWidgetData(args.frames, Unconverted, args.measurement).status

---------------------------------------------------------------------------
(* Claims on the widget body *)

\* C30: whatever the loading flag, the error, the data and the measurement
\* are, the body of a WidgetContainer shows exactly one of the loading
\* indicator, the load-failure message, the rendered widget and the no-data
\* placeholder
C30_BodyShowsExactlyOne ==
    GridReturned =>
        \A n \in 1..Len(ret.items) : Len(ret.items[n].body) = 1

---------------------------------------------------------------------------
(* Claims on edits and arriving data *)

\* a getDefaultDashboard request gets its response
DataArrives == fetching /\ ~fetching'

\* C26: dashboard data arriving from the server never discards a user edit.
\* Every widget of the in-memory layout is there by an edit (the remote
\* document starts without widgets), so arriving data must not remove one
C26_ArrivingDataKeepsEdits ==
    [][DataArrives =>
          \A n \in 1..Len(localLayout.widgets) :
             \E m \in 1..Len(localLayout'.widgets) :
                localLayout'.widgets[m].id = localLayout.widgets[n].id]_vars

UserEdit ==
    AddWidget \/ UpdateWidget \/ DeleteWidget \/ UpdateLayout \/ ResetDashboard
    \/ LoadLayout

\* an updateDashboard call is issued
WriteIssued == Len(inflight') > Len(inflight)

\* C27: once the user stops editing, only finitely many updateDashboard
\* writes are issued
C27_QuiescentAfterEdits ==
    <>[][~UserEdit]_vars => <>[][~WriteIssued]_vars

---------------------------------------------------------------------------
(* Claims on the migration from localStorage *)

\* a migrateDashboard call is issued
MigrateIssued == migrateCalls' > migrateCalls

\* localStorage holds a layout of version 1.0 with at least one widget
HoldsWidgets(item) ==
    /\ loadDashboardLayout(item) # Null
    /\ Len(loadDashboardLayout(item).widgets) > 0

\* C23: migrateDashboard is called at most once in a lifetime of the hook,
\* and only when localStorage holds a layout with a widget and the loaded
\* remote dashboard has none, also when the query data changes while a
\* migration call is in flight
C23_MigrationAtMostOnce ==
    [][MigrateIssued =>
          /\ migrateCalls = 0
          /\ HoldsWidgets(localStorage)
          /\ Len(dashboardData'.widgets) = 0]_vars

\* the condition of C23 without the count: it holds
C23_MigrationOnlyWhenEligible ==
    [][MigrateIssued =>
          /\ HoldsWidgets(localStorage)
          /\ Len(dashboardData'.widgets) = 0]_vars

\* a migrateDashboard call that succeeded gets its response
MigrateSucceeded ==
    /\ Len(migrating') < Len(migrating)
    /\ \E n \in 1..Len(migrating) :
          migrating[n] = "ok" /\ migrating' = RemoveAt(migrating, n)

\* C24: localStorage is cleared only when migrateDashboard has succeeded; a
\* failed migration call, and a migration not performed because the remote
\* dashboard has widgets, leave the stored layout as it is
C24_ClearedOnlyAfterSuccess ==
    [][localStorage' # localStorage => MigrateSucceeded /\ localStorage' = Null]_vars

\* the one migration call failed and the stored layout is still there
C24_Witness ==
    /\ migrationAttempted
    /\ migrateCalls = 1
    /\ migrating = <<>>
    /\ localStorage = StoredLayout

\* a migration call the remote store has applied
MigrationApplied ==
    localStorage = Null \/ \E n \in 1..Len(migrating) : migrating[n] = "ok"

\* C28: once migrateDashboard has been started for a stored layout with
\* widgets, no updateDashboard write carries the in-memory layout from before
\* the migration, which has no widgets (checked while the user has added
\* none)
C28_NoWriteOfPreMigrationLayout ==
    [][(WriteIssued /\ MigrationApplied /\ nextId = 1) =>
          Len(localLayout.widgets) > 0]_vars

====
